---- MODULE Spec2Model ----
(***************************************************************************)
(* Model of the scheduling and coordination engine of pi-parallel-agents:  *)
(*   - mapWithConcurrencyLimit (bounded worker pool, parallel.ts)          *)
(*   - raceWithAbort           (winner-takes-all race, parallel.ts)        *)
(*   - runAgentWithRetry       (retry policy, executor.ts)                 *)
(*   - shouldRetry             (retry decision, executor.ts)               *)
(*   - runAgentOnce            (one child process run, executor.ts)        *)
(*   - executeDag              (dependency scheduler, dag.ts)              *)
(* One step of the model is one JavaScript job: the synchronous part of a  *)
(* call, or the continuation that runs when an awaited promise settles.    *)
(* Jobs of different promises interleave freely; a cancel token may be     *)
(* fired by any job in between.                                            *)
(***************************************************************************)
EXTENDS Integers, Sequences, FiniteSets, TLC

VARIABLES
  \* ---- mapWithConcurrencyLimit ----
  mIn,        \* the arguments: [items, conc, signal]
  mExt,       \* signal.aborted (FALSE for ever when no signal is passed)
  mInternal,  \* abortController.signal.aborted
  mNext,      \* nextIndex
  mResults,   \* results: index (0-based) -> [set, v]
  mWorker,    \* worker k -> [pc, idx]
  mFirstErr,  \* what rejectFirst was called with: [set, e]
  mOrder,     \* indices in the order their fn calls resolved (observation)
  mCall,      \* the call's own promise: [pc, aborted, err]
  \* ---- raceWithAbort ----
  rIn,           \* the arguments: [n, parent]
  rExt,          \* parentSignal.aborted
  rInternal,     \* abortController.signal.aborted
  rTask,         \* task i -> "idle" | "running" | "ok" | "failed"
  rWinnerFound,  \* winnerFound
  rWinnerResult, \* winnerResult: [set, id, result]
  rLog,          \* task ids in the order their run promises resolved (observation)
  rCall,         \* the call's own promise: [pc, kind, winner, result, err]
  \* ---- runAgentWithRetry ----
  tIn,        \* options.retry: [present, maxAttempts, backoffMs, retryOn, skipOn]
  tAttempt,   \* attempt
  tCalls,     \* how many times runAgentFn has been invoked (observation)
  tLast,      \* lastResult: [set, r]
  tResults,   \* the results runAgentFn returned, in invocation order (observation)
  tBackoff,   \* the delay of the backoff in progress
  tCall,      \* the call's own promise: [pc, r]
  \* ---- shouldRetry ----
  sIn,        \* the arguments: [error, retry]
  sRet,       \* the value returned: [set, v]
  \* ---- runAgentOnce ----
  xIn,        \* options and environment of the run
  xFs,        \* temp entries of this call present on disk: subset of {"dir", "file"}
  xTmp,       \* the locals tmpPromptDir / tmpPromptPath: [dir, path] (assigned or null)
  xSig,       \* aborted flag of each token: [caller, duration, memory, tracker]
  xTimer,     \* armed timers: [duration, memory, kill], and the next-tick queue: [tick]
  xProc,      \* the child: [state, killed, sent, code]
  xEnv,       \* what happened around the run: [apiError, stderr, open, heapOver]
  xExit,      \* the exit promise: [set, code]
  xStatus,    \* progress.status
  xCall,      \* the call's own promise: [pc, r]
  \* ---- executeDag ----
  dIn,        \* the validated graph: [n, depends, maxConcurrency]
  dStatus,    \* node id -> status
  dRun,       \* node id -> [iteration, phase, feedbacks, approved]
  dCall,      \* the call's own promise: [pc, aborted]
  \* ---- runAgentOnce: the progress record and its snapshots ----
  pProgress,  \* progress: [status, currentTool, recentTools, recentOutput, toolCount]
  pOutputs,   \* how many previews were pushed to recentOutput (observation)
  pKept,      \* a value passed to onProgress that the caller retained
  pCall,      \* the run: [pc, exitCode, signal, fired, child, code, apiError, tick]
  \* ---- truncateOutput ----
  uIn,        \* the arguments: [output, maxBytes, maxLines]
  uOut,       \* the values returned by successive applications: seq of [output, truncated]
  \* ---- resolveAgentInheritance ----
  aIn,        \* the agents list as passed in
  aAgents,    \* the same agent objects as the call has left them
  aCall,      \* [pc, error]: "idle" | "returned" | "threw", and the error raised
  \* ---- calculateBackoff ----
  bIn,        \* baseMs
  bDelays,    \* calculateBackoff(baseMs, k) for the attempts k taken so far
  \* ---- processLine: the events of the child's stdout ----
  eSeen,      \* the lines handed to processLine so far
  eState,     \* [messages, turns, currentTool, toolCount, toolUsage, emitted]
  eCall,      \* [pc, output]: "running" | "threw" | "returned", getFinalOutput at return
  \* ---- the stdout 'data' and 'close' handlers ----
  oIn,        \* the characters the child writes to stdout
  oPos,       \* how many bytes of their UTF-8 encoding have been delivered
  oBuffer,    \* buffer
  oLines,     \* the lines that reached JSON.parse, in order
  oCall,      \* [pc, splitChar]: "running" | "closed"; a chunk ended inside a character
  \* ---- runAgent with a retry config and a cancel token ----
  gIn,        \* [retry, signal, maxDurationMs]
  gSig,       \* [caller, duration, ended, stale]: the caller's token fired; a duration timer fired; one ended an attempt; timers of returned attempts that are still pending
  gAttempt,   \* attempt
  gRun,       \* the attempt in flight: [status, exit, child, code, timer, tick]
  gSpawned,   \* child processes started so far
  gCall       \* [pc, r]

mapVars == <<mIn, mExt, mInternal, mNext, mResults, mWorker, mFirstErr, mOrder, mCall>>
raceVars == <<rIn, rExt, rInternal, rTask, rWinnerFound, rWinnerResult, rLog, rCall>>
retryVars == <<tIn, tAttempt, tCalls, tLast, tResults, tBackoff, tCall>>
policyVars == <<sIn, sRet>>
execVars == <<xIn, xFs, xTmp, xSig, xTimer, xProc, xEnv, xExit, xStatus, xCall>>
dagVars == <<dIn, dStatus, dRun, dCall>>
progVars == <<pProgress, pOutputs, pKept, pCall>>
truncVars == <<uIn, uOut>>
agentVars == <<aIn, aAgents, aCall>>
backoffVars == <<bIn, bDelays>>
eventVars == <<eSeen, eState, eCall>>
stdoutVars == <<oIn, oPos, oBuffer, oLines, oCall>>
runVars == <<gIn, gSig, gAttempt, gRun, gSpawned, gCall>>
vars == <<mapVars, raceVars, retryVars, policyVars, execVars, dagVars, progVars, truncVars, agentVars, backoffVars, eventVars, stdoutVars, runVars>>

\* Everything outside one subsystem.
exceptMap == <<raceVars, retryVars, policyVars, execVars, dagVars, progVars, truncVars, agentVars, backoffVars, eventVars, stdoutVars, runVars>>
exceptRace == <<mapVars, retryVars, policyVars, execVars, dagVars, progVars, truncVars, agentVars, backoffVars, eventVars, stdoutVars, runVars>>
exceptRetry == <<mapVars, raceVars, policyVars, execVars, dagVars, progVars, truncVars, agentVars, backoffVars, eventVars, stdoutVars, runVars>>
exceptPolicy == <<mapVars, raceVars, retryVars, execVars, dagVars, progVars, truncVars, agentVars, backoffVars, eventVars, stdoutVars, runVars>>
exceptExec == <<mapVars, raceVars, retryVars, policyVars, dagVars, progVars, truncVars, agentVars, backoffVars, eventVars, stdoutVars, runVars>>
exceptDag == <<mapVars, raceVars, retryVars, policyVars, execVars, progVars, truncVars, agentVars, backoffVars, eventVars, stdoutVars, runVars>>
exceptProg == <<mapVars, raceVars, retryVars, policyVars, execVars, dagVars, truncVars, agentVars, backoffVars, eventVars, stdoutVars, runVars>>
exceptTrunc == <<mapVars, raceVars, retryVars, policyVars, execVars, dagVars, progVars, agentVars, backoffVars, eventVars, stdoutVars, runVars>>
exceptAgents == <<mapVars, raceVars, retryVars, policyVars, execVars, dagVars, progVars, truncVars, backoffVars, eventVars, stdoutVars, runVars>>
exceptBackoff == <<mapVars, raceVars, retryVars, policyVars, execVars, dagVars, progVars, truncVars, agentVars, eventVars, stdoutVars, runVars>>
exceptEvents == <<mapVars, raceVars, retryVars, policyVars, execVars, dagVars, progVars, truncVars, agentVars, backoffVars, stdoutVars, runVars>>
exceptStdout == <<mapVars, raceVars, retryVars, policyVars, execVars, dagVars, progVars, truncVars, agentVars, backoffVars, eventVars, runVars>>
exceptRun == <<mapVars, raceVars, retryVars, policyVars, execVars, dagVars, progVars, truncVars, agentVars, backoffVars, eventVars, stdoutVars>>

Max(a, b) == IF a >= b THEN a ELSE b
Min(a, b) == IF a <= b THEN a ELSE b

(***************************************************************************)
(* mapWithConcurrencyLimit                                                 *)
(***************************************************************************)

\* Longest items list explored.
MaxItems == 3

ItemValues == {5, 10}

\* A JavaScript number as concurrency: a finite value in tenths (37 is 3.7),
\* or a non-finite one.
Num(t) == [kind |-> "num", tenths |-> t]
ConcurrencyInputs ==
  { Num(-50), Num(-5), Num(0), Num(5), Num(10), Num(20), Num(37),
    [kind |-> "inf", tenths |-> 0], [kind |-> "nan", tenths |-> 0] }

SignalInputs == {"none", "live", "aborted"}

ItemLists == UNION { [1..n -> ItemValues] : n \in 0..MaxItems }

\* Number.isFinite(concurrency)
IsFinite(c) == c.kind = "num"

\* Math.floor(concurrency)
Floor(c) == c.tenths \div 10

normalizedConcurrency(c, n) == IF IsFinite(c) THEN Floor(c) ELSE n

effectiveConcurrency(c, n) ==
  IF normalizedConcurrency(c, n) > 0 THEN normalizedConcurrency(c, n) ELSE n

limit(c, n) == Max(1, Min(effectiveConcurrency(c, n), n))

\* Array(limit): the number of workers created.
workerCount(c, n) == limit(c, n)

\* The fn of the test suite: async item => item * 2.
fn(item, index) == item * 2

\* The error the fn call for `index` rejects with, when it rejects.
fnError(index) == <<"error", index>>

Unset == [set |-> FALSE, v |-> 0]
NoErr == [set |-> FALSE, e |-> <<>>]

workerSignalInternalOnly(ext, internal) == internal

\* workerSignal.aborted: AbortSignal.any([signal, abortController.signal])
workerSignalAborted(ext, internal) == ext \/ internal

workerLoopIgnoringAbort(aborted, next, n) ==
  IF next >= n THEN [w |-> [pc |-> "returned", idx |-> 0], next |-> next + 1]
  ELSE [w |-> [pc |-> "running", idx |-> next], next |-> next + 1]

\* The head of the worker loop: stop on abort, else claim nextIndex++ and
\* call fn unless the items are exhausted.
workerLoop(aborted, next, n) ==
  IF aborted THEN [w |-> [pc |-> "returned", idx |-> 0], next |-> next]
  ELSE IF next >= n THEN [w |-> [pc |-> "returned", idx |-> 0], next |-> next + 1]
  ELSE [w |-> [pc |-> "running", idx |-> next], next |-> next + 1]

\* Array(limit).fill(null).map(() => worker()): worker k runs its loop head
\* synchronously, after workers 1..k-1 ran theirs.
RECURSIVE spawnWorkers(_, _, _, _)
spawnWorkers(k, aborted, next, n) ==
  IF k = 0 THEN [ws |-> <<>>, next |-> next]
  ELSE LET prev == spawnWorkers(k - 1, aborted, next, n)
           me == workerLoop(aborted, prev.next, n)
       IN [ws |-> Append(prev.ws, me.w), next |-> me.next]

storeByCompletion(results, index, order, v) ==
  [results EXCEPT ![Len(order) - 1] = [set |-> TRUE, v |-> v]]

\* results[index] = await fn(items[index], index)
storeResult(results, index, order, v) ==
  [results EXCEPT ![index] = [set |-> TRUE, v |-> v]]

InFlight == Cardinality({k \in DOMAIN mWorker : mWorker[k].pc = "running"})

InitMap ==
  /\ mIn \in [items : ItemLists, conc : ConcurrencyInputs, signal : SignalInputs]
  /\ mExt = (mIn.signal = "aborted")
  /\ mInternal = FALSE
  /\ mNext = 0
  /\ mResults = <<>>
  /\ mWorker = <<>>
  /\ mFirstErr = NoErr
  /\ mOrder = <<>>
  /\ mCall = [pc |-> "init", aborted |-> FALSE, err |-> <<>>]

IdleMap ==
  /\ mIn = [items |-> <<>>, conc |-> Num(10), signal |-> "none"]
  /\ mExt = FALSE
  /\ mInternal = FALSE
  /\ mNext = 0
  /\ mResults = <<>>
  /\ mWorker = <<>>
  /\ mFirstErr = NoErr
  /\ mOrder = <<>>
  /\ mCall = [pc |-> "init", aborted |-> FALSE, err |-> <<>>]

\* The synchronous part of the call, up to `await Promise.race(...)`.
MapCall ==
  /\ mCall.pc = "init"
  /\ LET n == Len(mIn.items) IN
     IF n = 0
     THEN /\ mCall' = [pc |-> "returned", aborted |-> FALSE, err |-> <<>>]
          /\ UNCHANGED <<mNext, mResults, mWorker>>
     ELSE LET sp == spawnWorkers(workerCount(mIn.conc, n),
                                 workerSignalAborted(mExt, mInternal), 0, n)
          IN /\ mResults' = [i \in 0..(n - 1) |-> Unset]
             /\ mWorker' = sp.ws
             /\ mNext' = sp.next
             /\ mCall' = [mCall EXCEPT !.pc = "pending"]
  /\ UNCHANGED <<mIn, mExt, mInternal, mFirstErr, mOrder>>
  /\ UNCHANGED exceptMap

\* The fn call of worker k resolves: store the value, run the loop head again.
MapFnResolve(k) ==
  /\ mWorker[k].pc = "running"
  /\ LET index == mWorker[k].idx
         order == Append(mOrder, index)
         step == workerLoop(workerSignalAborted(mExt, mInternal), mNext,
                            Len(mIn.items))
     IN /\ mOrder' = order
        /\ mResults' = storeResult(mResults, index, order,
                                   fn(mIn.items[index + 1], index))
        /\ mWorker' = [mWorker EXCEPT ![k] = step.w]
        /\ mNext' = step.next
  /\ UNCHANGED <<mIn, mExt, mInternal, mFirstErr, mCall>>
  /\ UNCHANGED exceptMap

\* The fn call of worker k rejects: the catch block of the worker.
MapFnReject(k) ==
  /\ mWorker[k].pc = "running"
  /\ IF ~workerSignalAborted(mExt, mInternal)
     THEN /\ mInternal' = TRUE
          /\ mFirstErr' = IF mFirstErr.set THEN mFirstErr
                          ELSE [set |-> TRUE, e |-> fnError(mWorker[k].idx)]
          /\ mWorker' = [mWorker EXCEPT ![k] = [pc |-> "threw", idx |-> @.idx]]
          /\ UNCHANGED mNext
     ELSE LET step == workerLoop(TRUE, mNext, Len(mIn.items))
          IN /\ mWorker' = [mWorker EXCEPT ![k] = step.w]
             /\ mNext' = step.next
             /\ UNCHANGED <<mInternal, mFirstErr>>
  /\ UNCHANGED <<mIn, mExt, mResults, mOrder, mCall>>
  /\ UNCHANGED exceptMap

\* The caller's token fires (controller.abort() in any job).
MapExternalAbort ==
  /\ mIn.signal # "none"
  /\ mCall.pc # "init"
  /\ ~mExt
  /\ mExt' = TRUE
  /\ UNCHANGED <<mIn, mInternal, mNext, mResults, mWorker, mFirstErr, mOrder, mCall>>
  /\ UNCHANGED exceptMap

someWorkerReturned == \E k \in DOMAIN mWorker : mWorker[k].pc = "returned"

allWorkersReturned == \A k \in DOMAIN mWorker : mWorker[k].pc = "returned"

raceSettledWhenAllDone ==
  /\ \A k \in DOMAIN mWorker : mWorker[k].pc # "running"
  /\ mFirstErr.set \/ allWorkersReturned

\* Promise.race([Promise.all(workers), firstErrorPromise]) has settled.
raceSettled == mFirstErr.set \/ allWorkersReturned

\* The continuation of `await Promise.race(...)`: the catch block, or the
\* final return. rejectFirst(error) only queues this job: a job that runs
\* before it may fire the caller's token, which the catch block then reads
\* (signal?.aborted).
MapSettle ==
  /\ mCall.pc = "pending"
  /\ raceSettled
  /\ mCall' = IF mFirstErr.set
              THEN IF mExt
                   THEN [pc |-> "returned", aborted |-> TRUE, err |-> <<>>]
                   ELSE [pc |-> "raised", aborted |-> FALSE, err |-> mFirstErr.e]
              ELSE [pc |-> "returned", aborted |-> mExt, err |-> <<>>]
  /\ UNCHANGED <<mIn, mExt, mInternal, mNext, mResults, mWorker, mFirstErr, mOrder>>
  /\ UNCHANGED exceptMap

(***************************************************************************)
(* raceWithAbort                                                           *)
(***************************************************************************)

\* Most tasks explored in one race.
MaxTasks == 3

\* tasks[i].id, the value tasks[i].run resolves with, the error it rejects with.
taskId(i) == <<"task", i>>
taskResult(i) == <<"result", i>>
taskError(i) == <<"fail", i>>

NoWinner == [set |-> FALSE, id |-> <<>>, result |-> <<>>]
NoError == [msg |-> "", failures |-> {}]
RacePending == [pc |-> "init", kind |-> "none", winner |-> <<>>, result |-> <<>>,
                err |-> NoError]

InitRace ==
  /\ rIn \in [n : 0..MaxTasks, parent : SignalInputs]
  /\ rExt = (rIn.parent = "aborted")
  /\ rInternal = FALSE
  /\ rTask = [i \in 1..rIn.n |-> "idle"]
  /\ rWinnerFound = FALSE
  /\ rWinnerResult = NoWinner
  /\ rLog = <<>>
  /\ rCall = RacePending

IdleRace ==
  /\ rIn = [n |-> 0, parent |-> "none"]
  /\ rExt = FALSE
  /\ rInternal = FALSE
  /\ rTask = <<>>
  /\ rWinnerFound = FALSE
  /\ rWinnerResult = NoWinner
  /\ rLog = <<>>
  /\ rCall = RacePending

\* The synchronous part of the call, up to `await Promise.all(promises)`.
RaceCall ==
  /\ rCall.pc = "init"
  /\ IF rIn.n = 0
     THEN /\ rCall' = [RacePending EXCEPT !.pc = "raised",
                         !.err = [msg |-> "No tasks to race", failures |-> {}]]
          /\ UNCHANGED rTask
     ELSE IF rExt
     THEN /\ rCall' = [RacePending EXCEPT !.pc = "returned", !.kind = "aborted"]
          /\ UNCHANGED rTask
     ELSE /\ rCall' = [RacePending EXCEPT !.pc = "pending"]
          /\ rTask' = [i \in 1..rIn.n |-> "running"]
  /\ UNCHANGED <<rIn, rExt, rInternal, rWinnerFound, rWinnerResult, rLog>>
  /\ UNCHANGED exceptRace

lastSuccessWins(found, winner, i) ==
  [found |-> TRUE, abort |-> TRUE,
   winner |-> [set |-> TRUE, id |-> taskId(i), result |-> taskResult(i)]]

\* if (!winnerFound) { winnerFound = true; abortController.abort();
\*                     winnerResult = { id: task.id, result } }
onTaskResolved(found, winner, i) ==
  IF ~found
  THEN [found |-> TRUE, abort |-> TRUE,
        winner |-> [set |-> TRUE, id |-> taskId(i), result |-> taskResult(i)]]
  ELSE [found |-> found, abort |-> FALSE, winner |-> winner]

\* tasks[i].run(combinedSignal) resolves.
RaceTaskResolve(i) ==
  /\ rTask[i] = "running"
  /\ LET h == onTaskResolved(rWinnerFound, rWinnerResult, i)
     IN /\ rWinnerFound' = h.found
        /\ rWinnerResult' = h.winner
        /\ rInternal' = (rInternal \/ h.abort)
  /\ rTask' = [rTask EXCEPT ![i] = "ok"]
  /\ rLog' = Append(rLog, [i |-> i, ok |-> TRUE])
  /\ UNCHANGED <<rIn, rExt, rCall>>
  /\ UNCHANGED exceptRace

\* tasks[i].run(combinedSignal) rejects: the empty catch block.
RaceTaskReject(i) ==
  /\ rTask[i] = "running"
  /\ rTask' = [rTask EXCEPT ![i] = "failed"]
  /\ rLog' = Append(rLog, [i |-> i, ok |-> FALSE])
  /\ UNCHANGED <<rIn, rExt, rInternal, rWinnerFound, rWinnerResult, rCall>>
  /\ UNCHANGED exceptRace

\* The parent token fires while the race is on.
RaceParentAbort ==
  /\ rIn.parent # "none"
  /\ rCall.pc = "pending"
  /\ ~rExt
  /\ rExt' = TRUE
  /\ UNCHANGED <<rIn, rInternal, rTask, rWinnerFound, rWinnerResult, rLog, rCall>>
  /\ UNCHANGED exceptRace

winnerOrAllSettled ==
  rWinnerFound \/ \A i \in DOMAIN rTask : rTask[i] \in {"ok", "failed"}

\* Promise.all(promises) has resolved (no promise of the list ever rejects).
allPromisesSettled == \A i \in DOMAIN rTask : rTask[i] \in {"ok", "failed"}

\* The continuation of `await Promise.all(promises)`.
RaceSettle ==
  /\ rCall.pc = "pending"
  /\ allPromisesSettled
  /\ rCall' = IF rWinnerResult.set
              THEN [RacePending EXCEPT !.pc = "returned", !.kind = "winner",
                      !.winner = rWinnerResult.id, !.result = rWinnerResult.result]
              ELSE [RacePending EXCEPT !.pc = "raised",
                      !.err = [msg |-> "All race tasks failed", failures |-> {}]]
  /\ UNCHANGED <<rIn, rExt, rInternal, rTask, rWinnerFound, rWinnerResult, rLog>>
  /\ UNCHANGED exceptRace

(***************************************************************************)
(* runAgentWithRetry                                                       *)
(***************************************************************************)

\* Largest retry.maxAttempts explored.
MaxAttempts == 3

\* Strings are sequences of characters.
S_Empty == <<>>
S_Net == <<"N", "e", "t">>
S_FatalNet == <<"f", "a", "t", "a", "l", " ", "n", "e", "t">>
S_Oom == <<"o", "o", "m">>
P_net == <<"n", "e", "t">>
P_NET == <<"N", "E", "T">>
P_FATAL == <<"F", "A", "T", "A", "L">>
P_oom == <<"o", "o", "m">>

Absent == [present |-> FALSE, pats |-> <<>>]
Pats(list) == [present |-> TRUE, pats |-> list]

RetryOnInputs == {Absent, Pats(<<>>), Pats(<<P_net>>), Pats(<<P_oom, P_NET>>)}
SkipOnInputs == {Absent, Pats(<<>>), Pats(<<P_FATAL>>), Pats(<<P_oom, P_FATAL>>)}
BackoffInputs == {1000}

NoRetry == [present |-> FALSE, maxAttempts |-> 1, backoffMs |-> 0,
            retryOn |-> Absent, skipOn |-> Absent]

RetryInputs ==
  {NoRetry} \cup
  [present : {TRUE}, maxAttempts : 1..MaxAttempts, backoffMs : BackoffInputs,
   retryOn : RetryOnInputs, skipOn : SkipOnInputs]

\* What one invocation of runAgentFn may return: exitCode and error ("" is
\* no error); `call` is the identity of the returned object.
Outcomes ==
  { [exitCode |-> 0, error |-> S_Empty], [exitCode |-> 0, error |-> S_Net],
    [exitCode |-> 1, error |-> S_Empty], [exitCode |-> 1, error |-> S_Net],
    [exitCode |-> 1, error |-> S_FatalNet], [exitCode |-> 1, error |-> S_Oom] }

NoResult == [exitCode |-> 0, error |-> S_Empty, call |-> 0]

lowerChar(c) ==
  CASE c = "N" -> "n" [] c = "E" -> "e" [] c = "T" -> "t"
    [] c = "F" -> "f" [] c = "A" -> "a" [] c = "L" -> "l"
    [] OTHER -> c

\* String.prototype.toLowerCase
toLowerCase(str) == [i \in DOMAIN str |-> lowerChar(str[i])]

\* String.prototype.includes
includes(str, pattern) ==
  \E k \in 0..(Len(str) - Len(pattern)) :
    SubSeq(str, k + 1, k + Len(pattern)) = pattern

\* error.toLowerCase().includes(pattern.toLowerCase())
matches(error, pattern) == includes(toLowerCase(error), toLowerCase(pattern))

retryOnBeforeSkipOn(error, retry) ==
  IF ~retry.present THEN FALSE
  ELSE IF ~retry.retryOn.present \/ Len(retry.retryOn.pats) = 0
       THEN ~\E i \in DOMAIN retry.skipOn.pats : matches(error, retry.skipOn.pats[i])
  ELSE \E i \in DOMAIN retry.retryOn.pats : matches(error, retry.retryOn.pats[i])

shouldRetry(error, retry) ==
  IF ~retry.present THEN FALSE
  ELSE IF /\ retry.skipOn.present
          /\ Len(retry.skipOn.pats) > 0
          /\ \E i \in DOMAIN retry.skipOn.pats : matches(error, retry.skipOn.pats[i])
       THEN FALSE
  ELSE IF ~retry.retryOn.present \/ Len(retry.retryOn.pats) = 0 THEN TRUE
  ELSE \E i \in DOMAIN retry.retryOn.pats : matches(error, retry.retryOn.pats[i])

backoffZeroBased(baseMs, attempt) == Min(baseMs * 2 ^ attempt, 60000)

calculateBackoff(baseMs, attempt) == Min(baseMs * 2 ^ (attempt - 1), 60000)

successNeedsBoth(result) == result.exitCode = 0 /\ result.error = S_Empty

\* result.exitCode === 0 || !result.error
isSuccess(result) == result.exitCode = 0 \/ result.error = S_Empty

exhaustedAggregate(result, attempt) ==
  [result EXCEPT !.error = <<"m", "a", "x">> \o @]

\* if (attempt >= retry.maxAttempts) return result
exhaustedReturn(result, attempt) == result

\* The body of the while loop after `await runAgentFn(options)`.
afterAttempt(result, attempt, retry) ==
  IF isSuccess(result) THEN [pc |-> "returned", r |-> result]
  ELSE IF ~shouldRetry(result.error, retry) THEN [pc |-> "returned", r |-> result]
  ELSE IF attempt >= retry.maxAttempts
       THEN [pc |-> "returned", r |-> exhaustedReturn(result, attempt)]
  ELSE [pc |-> "backoff", r |-> NoResult]

InitRetry ==
  /\ tIn \in RetryInputs
  /\ tAttempt = 1
  /\ tCalls = 0
  /\ tLast = [set |-> FALSE, r |-> NoResult]
  /\ tResults = <<>>
  /\ tBackoff = 0
  /\ tCall = [pc |-> "init", r |-> NoResult]

IdleRetry ==
  /\ tIn = NoRetry
  /\ tAttempt = 1
  /\ tCalls = 0
  /\ tLast = [set |-> FALSE, r |-> NoResult]
  /\ tResults = <<>>
  /\ tBackoff = 0
  /\ tCall = [pc |-> "init", r |-> NoResult]

\* The call up to its first await: without a retry config runAgentFn is
\* invoked once and its promise returned; with one, the loop is entered.
RetryCall ==
  /\ tCall.pc = "init"
  /\ IF ~tIn.present
     THEN /\ tCall' = [tCall EXCEPT !.pc = "single"]
          /\ tCalls' = tCalls + 1
     ELSE IF tAttempt <= tIn.maxAttempts
     THEN /\ tCall' = [tCall EXCEPT !.pc = "running"]
          /\ tCalls' = tCalls + 1
     ELSE /\ tCall' = [pc |-> "returned", r |-> tLast.r]
          /\ UNCHANGED tCalls
  /\ UNCHANGED <<tIn, tAttempt, tLast, tResults, tBackoff>>
  /\ UNCHANGED exceptRetry

\* runAgentFn resolves in a call without retry config: its result is the
\* call's result.
RetrySingleReturns ==
  /\ tCall.pc = "single"
  /\ \E o \in Outcomes :
       LET result == [exitCode |-> o.exitCode, error |-> o.error, call |-> tCalls]
       IN /\ tResults' = Append(tResults, result)
          /\ tCall' = [pc |-> "returned", r |-> result]
  /\ UNCHANGED <<tIn, tAttempt, tCalls, tLast, tBackoff>>
  /\ UNCHANGED exceptRetry

\* runAgentFn resolves inside the loop.
RetryAttemptReturns ==
  /\ tCall.pc = "running"
  /\ \E o \in Outcomes :
       LET result == [exitCode |-> o.exitCode, error |-> o.error, call |-> tCalls]
           next == afterAttempt(result, tAttempt, tIn)
       IN /\ tResults' = Append(tResults, result)
          /\ tLast' = IF isSuccess(result) THEN tLast
                      ELSE [set |-> TRUE, r |-> result]
          /\ tCall' = next
          /\ tBackoff' = IF next.pc = "backoff"
                         THEN calculateBackoff(tIn.backoffMs, tAttempt)
                         ELSE tBackoff
  /\ UNCHANGED <<tIn, tAttempt, tCalls>>
  /\ UNCHANGED exceptRetry

\* The backoff timer fires: attempt++, and the loop condition is tested.
RetryBackoffDone ==
  /\ tCall.pc = "backoff"
  /\ tAttempt' = tAttempt + 1
  /\ tBackoff' = 0
  /\ IF tAttempt + 1 <= tIn.maxAttempts
     THEN /\ tCall' = [tCall EXCEPT !.pc = "running"]
          /\ tCalls' = tCalls + 1
     ELSE /\ tCall' = [pc |-> "returned", r |-> tLast.r]
          /\ UNCHANGED tCalls
  /\ UNCHANGED <<tIn, tLast, tResults>>
  /\ UNCHANGED exceptRetry

(***************************************************************************)
(* shouldRetry as a function of its two arguments                          *)
(***************************************************************************)

\* The error strings a result may carry.
ErrorInputs == {S_Empty, S_Net, S_FatalNet, S_Oom}

NoReturn == [set |-> FALSE, v |-> FALSE]

InitPolicy ==
  /\ sIn \in [error : ErrorInputs, retry : RetryInputs]
  /\ sRet = NoReturn

IdlePolicy ==
  /\ sIn = [error |-> S_Empty, retry |-> NoRetry]
  /\ sRet = NoReturn

\* shouldRetry(error, retry) is called and returns.
PolicyCall ==
  /\ ~sRet.set
  /\ sRet' = [set |-> TRUE, v |-> shouldRetry(sIn.error, sIn.retry)]
  /\ UNCHANGED sIn
  /\ UNCHANGED exceptPolicy

(***************************************************************************)
(* runAgentOnce: one run of the child process                              *)
(***************************************************************************)

\* Largest number of tool executions the child has open at once.
MaxOpenTools == 2

\* options.systemPrompt and the temp directory it is written to: no prompt,
\* a prompt written without trouble, and a prompt for which mkdtempSync or
\* writeFileSync throws.
PromptInputs == {"none", "written", "mkdtempThrows", "writeThrows"}

NoLimit == [present |-> FALSE, v |-> 0]
Limit(v) == [present |-> TRUE, v |-> v]

DurationInputs == {NoLimit, Limit(300000)}
MemoryInputs == {NoLimit, Limit(512)}
ToolCallInputs == {NoLimit, Limit(1)}
EnforceInputs == {"absent", "true", "false"}
SpawnInputs == {"started", "enoent"}

ExecInputs ==
  [prompt : PromptInputs, signal : SignalInputs, maxDurationMs : DurationInputs,
   maxMemoryMB : MemoryInputs, maxConcurrentToolCalls : ToolCallInputs,
   enforceLimits : EnforceInputs, spawn : SpawnInputs]

\* What the child's close event reports: an exit code, or null when a signal
\* ended it.
CloseCodes == {[null |-> FALSE, code |-> 0], [null |-> FALSE, code |-> 2],
               [null |-> TRUE, code |-> 0]}

S_Stderr == <<"N", "e", "t">>
S_ApiError == <<"4", "0", "1">>

digit(n) == CASE n = 0 -> "0" [] n = 1 -> "1" [] n = 2 -> "2"

\* `Exit code: ${exitCode}`
exitCodeMessage(exitCode) ==
  <<"E", "x", "i", "t", " ", "c", "o", "d", "e", ":", " ", digit(exitCode)>>

\* JavaScript truthiness of an optional number.
truthy(l) == l.present /\ l.v # 0

durationNeedsEnforce(in) ==
  truthy(in.maxDurationMs) /\ in.enforceLimits = "true"

\* The duration signal is created.
hasDurationSignal(in) == truthy(in.maxDurationMs)

\* The MemoryMonitor is constructed.
hasMemoryMonitor(in) == truthy(in.maxMemoryMB) /\ in.enforceLimits = "true"

\* The ToolCallTracker is constructed.
hasToolCallTracker(in) ==
  truthy(in.maxConcurrentToolCalls) /\ in.enforceLimits = "true"

\* The sources pushed to `signals`, of which combinedSignal is the any-of.
signals(in) ==
  (IF in.signal # "none" THEN {"caller"} ELSE {}) \cup
  (IF hasDurationSignal(in) THEN {"duration"} ELSE {}) \cup
  (IF hasMemoryMonitor(in) THEN {"memory"} ELSE {})

\* combinedSignal.aborted
combinedAborted(in, sig) == \E s \in signals(in) : sig[s]

NoCode == [null |-> FALSE, code |-> 0]
NoProc == [state |-> "none", killed |-> FALSE, sent |-> {}, code |-> NoCode]
NoExit == [set |-> FALSE, code |-> 0]
NoTaskResult == [exitCode |-> 0, error |-> S_Empty, aborted |-> FALSE,
                 status |-> "running", cancelled |-> FALSE]

\* resolve(code) of the exit promise: only the first call counts.
resolve(exit, code) == IF exit.set THEN exit ELSE [set |-> TRUE, code |-> code]

\* What proc.kill can return: true while the process handle exists, that is
\* until the child's 'exit', and false afterwards. For a child whose spawn
\* failed, before its 'error' event, the handle is still there and holds no
\* pid of a child: kill signals whatever it holds and returns true, or
\* returns false.
killReturns(proc) ==
  CASE proc.state = "running" -> {TRUE}
    [] proc.state = "failed" -> BOOLEAN
    [] OTHER -> {FALSE}

\* proc.kill(sig) that returns `ok`: proc.killed records that a signal was
\* delivered; a kill that returns false changes nothing.
kill(proc, sig, ok) ==
  IF ok
  THEN [proc EXCEPT !.killed = TRUE, !.sent = @ \cup {sig}]
  ELSE proc

\* The listener spawn() puts on its `signal` option: it kills the child with
\* SIGTERM and, when that signal was delivered, emits 'error', whose handler
\* calls resolve(1). The listener is removed at the child's 'exit'.
spawnAbortProc(proc, ok) == kill(proc, "SIGTERM", ok)
spawnAbortExit(ok, exit) ==
  IF ok THEN resolve(exit, 1) ELSE exit

\* writePromptToTempFile: the entries it leaves on disk.
writePromptToTempFile(prompt) ==
  CASE prompt = "written" -> {"dir", "file"}
    [] prompt = "writeThrows" -> {"dir"}
    [] OTHER -> {}

\* The finally block: unlink tmpPromptPath, rmdir tmpPromptDir.
cleanup(fs, tmp) ==
  (fs \ (IF tmp.path THEN {"file"} ELSE {})) \ (IF tmp.dir THEN {"dir"} ELSE {})

stderrOnly(exitCode, aborted, stderr) ==
  IF exitCode # 0 /\ ~aborted THEN stderr ELSE S_Empty

\* result.error after `if (exitCode !== 0 && !result.aborted)`.
exitError(exitCode, aborted, stderr) ==
  IF exitCode # 0 /\ ~aborted
  THEN (IF stderr # S_Empty THEN stderr ELSE exitCodeMessage(exitCode))
  ELSE S_Empty

\* The TaskResult and the final progress.status; `cancelled` observes
\* whether combinedSignal had fired when the result was built.
buildResult(exitCode, status, env, cancelled) ==
  LET aborted == status = "aborted"
      error == exitError(exitCode, aborted, env.stderr)
      api == env.apiError # S_Empty /\ error = S_Empty
      finalCode == IF api THEN 1 ELSE exitCode
  IN  [exitCode |-> finalCode,
       error |-> IF api THEN env.apiError ELSE error,
       aborted |-> aborted,
       status |-> IF aborted THEN "aborted"
                  ELSE IF finalCode = 0 THEN "completed" ELSE "failed",
       cancelled |-> cancelled]

InitExec ==
  /\ xIn \in ExecInputs
  /\ xFs = {}
  /\ xTmp = [dir |-> FALSE, path |-> FALSE]
  /\ xSig = [caller |-> xIn.signal = "aborted", duration |-> FALSE,
             memory |-> FALSE, tracker |-> FALSE]
  /\ xTimer = [duration |-> "off", memory |-> "off", kill |-> "off", tick |-> "off"]
  /\ xProc = NoProc
  /\ xEnv = [apiError |-> S_Empty, stderr |-> S_Empty, open |-> 0, heapOver |-> FALSE]
  /\ xExit = NoExit
  /\ xStatus = "running"
  /\ xCall = [pc |-> "init", r |-> NoTaskResult]

IdleExec ==
  /\ xIn = [prompt |-> "none", signal |-> "none", maxDurationMs |-> NoLimit,
            maxMemoryMB |-> NoLimit, maxConcurrentToolCalls |-> NoLimit,
            enforceLimits |-> "absent", spawn |-> "started"]
  /\ xFs = {}
  /\ xTmp = [dir |-> FALSE, path |-> FALSE]
  /\ xSig = [caller |-> FALSE, duration |-> FALSE, memory |-> FALSE, tracker |-> FALSE]
  /\ xTimer = [duration |-> "off", memory |-> "off", kill |-> "off", tick |-> "off"]
  /\ xProc = NoProc
  /\ xEnv = [apiError |-> S_Empty, stderr |-> S_Empty, open |-> 0, heapOver |-> FALSE]
  /\ xExit = NoExit
  /\ xStatus = "running"
  /\ xCall = [pc |-> "init", r |-> NoTaskResult]

\* The synchronous part of runAgentOnce: the guards are set up, the prompt
\* file is written, the child is spawned and the handlers are registered.
\* An exception of writePromptToTempFile leaves through the finally block.
\* With a caller token that has already fired, killProc runs at once (its
\* kill returns `ok`) and spawn() queues its own abort handling for the
\* next tick; the call returns to its caller with the exit promise pending.
ExecCall ==
  /\ xCall.pc = "init"
  /\ IF xIn.prompt \in {"mkdtempThrows", "writeThrows"}
     THEN /\ xFs' = cleanup(writePromptToTempFile(xIn.prompt), xTmp)
          /\ xCall' = [xCall EXCEPT !.pc = "raised"]
          /\ xTimer' = [xTimer EXCEPT
                          !.duration = IF hasDurationSignal(xIn) THEN "armed" ELSE "off"]
          /\ UNCHANGED <<xTmp, xProc, xExit, xStatus>>
     ELSE LET written == writePromptToTempFile(xIn.prompt)
              spawned == [state |-> IF xIn.spawn = "started" THEN "running" ELSE "failed",
                          killed |-> FALSE, sent |-> {}, code |-> NoCode]
          IN  /\ xFs' = written
              /\ xTmp' = [dir |-> "dir" \in written, path |-> "file" \in written]
              /\ xCall' = [xCall EXCEPT !.pc = "awaiting"]
              /\ IF xIn.signal = "aborted"
                 THEN /\ xStatus' = "aborted"
                      /\ \E ok \in killReturns(spawned) :
                           xProc' = kill(spawned, "SIGTERM", ok)
                      /\ xTimer' = [xTimer EXCEPT
                                      !.duration = IF hasDurationSignal(xIn)
                                                   THEN "armed" ELSE "off",
                                      !.kill = "armed",
                                      !.tick = "queued"]
                      /\ UNCHANGED xExit
                 ELSE /\ xProc' = spawned
                      /\ xTimer' = [xTimer EXCEPT
                                      !.duration = IF hasDurationSignal(xIn)
                                                   THEN "armed" ELSE "off"]
                      /\ UNCHANGED <<xExit, xStatus>>
  /\ UNCHANGED <<xIn, xSig, xEnv>>
  /\ UNCHANGED exceptExec

\* No callback that spawn() queued for the next tick is waiting: timers and
\* the events of the child come after the next-tick queue.
tickDone == xTimer.tick # "queued"

\* The abort listener that spawn() queued for a signal that had already
\* fired: it kills the child and the 'error' handler calls resolve(1).
ExecSpawnAbortTick ==
  /\ xCall.pc = "awaiting"
  /\ xTimer.tick = "queued"
  /\ xProc.state = "running"
  /\ \E ok2 \in killReturns(xProc) :
       /\ xProc' = spawnAbortProc(xProc, ok2)
       /\ xExit' = spawnAbortExit(ok2, xExit)
  /\ xTimer' = [xTimer EXCEPT !.tick = "off"]
  /\ UNCHANGED <<xIn, xFs, xTmp, xSig, xEnv, xStatus, xCall>>
  /\ UNCHANGED exceptExec

\* stdout and stderr of the child deliver data until 'close'.
pipesOpen(proc) == proc.state \in {"running", "exited"}

\* processLine: an assistant message_end with stopReason "error" and an
\* errorMessage.
ExecApiErrorMessage ==
  /\ xCall.pc \in {"awaiting", "returned"}
  /\ tickDone
  /\ pipesOpen(xProc)
  /\ xEnv.apiError = S_Empty
  /\ xEnv' = [xEnv EXCEPT !.apiError = S_ApiError]
  /\ UNCHANGED <<xIn, xFs, xTmp, xSig, xTimer, xProc, xExit, xStatus, xCall>>
  /\ UNCHANGED exceptExec

\* proc.stderr.on("data")
ExecStderrData ==
  /\ xCall.pc \in {"awaiting", "returned"}
  /\ tickDone
  /\ pipesOpen(xProc)
  /\ xEnv.stderr = S_Empty
  /\ xEnv' = [xEnv EXCEPT !.stderr = S_Stderr]
  /\ UNCHANGED <<xIn, xFs, xTmp, xSig, xTimer, xProc, xExit, xStatus, xCall>>
  /\ UNCHANGED exceptExec

\* processLine: tool_execution_start. The tracker is not told.
ExecToolStart ==
  /\ xCall.pc \in {"awaiting", "returned"}
  /\ tickDone
  /\ pipesOpen(xProc)
  /\ xEnv.open < MaxOpenTools
  /\ xEnv' = [xEnv EXCEPT !.open = @ + 1]
  /\ UNCHANGED <<xIn, xFs, xTmp, xSig, xTimer, xProc, xExit, xStatus, xCall>>
  /\ UNCHANGED exceptExec

\* processLine: tool_execution_end.
ExecToolEnd ==
  /\ xCall.pc \in {"awaiting", "returned"}
  /\ tickDone
  /\ pipesOpen(xProc)
  /\ xEnv.open > 0
  /\ xEnv' = [xEnv EXCEPT !.open = @ - 1]
  /\ UNCHANGED <<xIn, xFs, xTmp, xSig, xTimer, xProc, xExit, xStatus, xCall>>
  /\ UNCHANGED exceptExec

\* The heap of this process grows beyond maxMemoryMB.
ExecHeapGrows ==
  /\ xCall.pc = "awaiting"
  /\ tickDone
  /\ truthy(xIn.maxMemoryMB)
  /\ ~xEnv.heapOver
  /\ xEnv' = [xEnv EXCEPT !.heapOver = TRUE]
  /\ UNCHANGED <<xIn, xFs, xTmp, xSig, xTimer, xProc, xExit, xStatus, xCall>>
  /\ UNCHANGED exceptExec

\* The child ends ('exit'): the process handle is gone and spawn's abort
\* listener is removed; stdout and stderr may still be open. No handler of
\* runAgentOnce listens to 'exit'.
ExecChildExit(c) ==
  /\ xCall.pc \in {"awaiting", "returned"}
  /\ tickDone
  /\ xProc.state = "running"
  /\ xProc' = [xProc EXCEPT !.state = "exited", !.code = c]
  /\ UNCHANGED <<xIn, xFs, xTmp, xSig, xTimer, xEnv, xExit, xStatus, xCall>>
  /\ UNCHANGED exceptExec

\* proc.on("close"): the child has ended and its pipes are closed;
\* resolve(code ?? 0).
ExecChildClose ==
  /\ xCall.pc \in {"awaiting", "returned"}
  /\ tickDone
  /\ xProc.state = "exited"
  /\ xProc' = [xProc EXCEPT !.state = "closed"]
  /\ xExit' = resolve(xExit, IF xProc.code.null THEN 0 ELSE xProc.code.code)
  /\ UNCHANGED <<xIn, xFs, xTmp, xSig, xTimer, xEnv, xStatus, xCall>>
  /\ UNCHANGED exceptExec

\* proc.on("error") for a child that could not be spawned: resolve(1). The
\* handle is released before the event is emitted. The event comes from the
\* next-tick queue, ahead of an abort listener queued there, whose kill then
\* returns false and changes nothing.
ExecSpawnError ==
  /\ xCall.pc \in {"awaiting", "returned"}
  /\ xProc.state = "failed"
  /\ xProc' = [xProc EXCEPT !.state = "closed"]
  /\ xExit' = resolve(xExit, 1)
  /\ xTimer' = [xTimer EXCEPT !.tick = "off"]
  /\ UNCHANGED <<xIn, xFs, xTmp, xSig, xEnv, xStatus, xCall>>
  /\ UNCHANGED exceptExec

\* The caller's token fires: killProc runs (its kill returns `ok`), then,
\* when combinedSignal had not fired before, spawn's abort handling (its kill
\* returns `ok2`).
ExecCallerAbort ==
  /\ xCall.pc \in {"awaiting", "returned"}
  /\ tickDone
  /\ xIn.signal = "live"
  /\ ~xSig.caller
  /\ xSig' = [xSig EXCEPT !.caller = TRUE]
  /\ xStatus' = "aborted"
  /\ xTimer' = [xTimer EXCEPT !.kill = "armed"]
  /\ \E ok \in killReturns(xProc), ok2 \in killReturns(xProc) :
       IF combinedAborted(xIn, xSig)
       THEN /\ xProc' = kill(xProc, "SIGTERM", ok)
            /\ UNCHANGED xExit
       ELSE /\ xProc' = spawnAbortProc(kill(xProc, "SIGTERM", ok), ok2)
            /\ xExit' = spawnAbortExit(ok2, xExit)
  /\ UNCHANGED <<xIn, xFs, xTmp, xEnv, xCall>>
  /\ UNCHANGED exceptExec

\* The timer of createDurationAbortSignal fires: its controller aborts and,
\* when combinedSignal had not fired before, spawn's abort handling runs.
ExecDurationTimer ==
  /\ xCall.pc \in {"awaiting", "returned", "raised"}
  /\ tickDone
  /\ xTimer.duration = "armed"
  /\ xTimer' = [xTimer EXCEPT !.duration = "fired"]
  /\ xSig' = [xSig EXCEPT !.duration = TRUE]
  /\ IF combinedAborted(xIn, xSig)
     THEN UNCHANGED <<xProc, xExit>>
     ELSE \E ok \in killReturns(xProc) :
            /\ xProc' = spawnAbortProc(xProc, ok)
            /\ xExit' = spawnAbortExit(ok, xExit)
  /\ UNCHANGED <<xIn, xFs, xTmp, xEnv, xStatus, xCall>>
  /\ UNCHANGED exceptExec

\* The 5000 ms timer of killProc fires.
ExecKillTimer ==
  /\ xTimer.kill = "armed"
  /\ tickDone
  /\ xTimer' = [xTimer EXCEPT !.kill = "elapsed"]
  /\ \E ok \in killReturns(xProc) :
       xProc' = IF ~xProc.killed THEN kill(xProc, "SIGKILL", ok) ELSE xProc
  /\ UNCHANGED <<xIn, xFs, xTmp, xSig, xEnv, xExit, xStatus, xCall>>
  /\ UNCHANGED exceptExec

\* The continuation after `await`: the result is built, the final progress
\* is emitted, the finally block removes the prompt file and its directory.
ExecReturn ==
  /\ xCall.pc = "awaiting"
  /\ xExit.set
  /\ LET r == buildResult(xExit.code, xStatus, xEnv, combinedAborted(xIn, xSig))
     IN  /\ xCall' = [pc |-> "returned", r |-> r]
         /\ xStatus' = r.status
  /\ xFs' = cleanup(xFs, xTmp)
  /\ UNCHANGED <<xIn, xTmp, xSig, xTimer, xProc, xEnv, xExit>>
  /\ UNCHANGED exceptExec

(***************************************************************************)
(* executeDag: the scheduler loop over a validated graph                   *)
(***************************************************************************)

\* Largest number of tasks in a team.
MaxNodes == 4

\* Largest number of tasks in a team with review blocks, and largest
\* review.maxIterations.
MaxReviewNodes == 2
MaxIterations == 2

ConcurrencyBudgets == {1, 2}

\* The dependency lists of k tasks in which task i depends on tasks below i.
RECURSIVE dependsOnEarlier(_)
dependsOnEarlier(k) ==
  IF k = 0 THEN {<<>>}
  ELSE { Append(f, S) : f \in dependsOnEarlier(k - 1), S \in SUBSET (1..(k - 1)) }

\* The graphs buildDag accepts: ids 1..n, every dependency an existing id,
\* no cycle (a node depends only on nodes of a lower id).
\* review[i] is review.maxIterations of task i, 0 for a task without a
\* review block.
DagInputs ==
  UNION { [n : {k},
           depends : dependsOnEarlier(k),
           review : {[i \in 1..k |-> 0]},
           maxConcurrency : ConcurrencyBudgets] : k \in 1..MaxNodes }

\* The same graphs, smaller, with review blocks on any of the tasks.
DagReviewInputs ==
  UNION { [n : {k},
           depends : dependsOnEarlier(k),
           review : [1..k -> 0..MaxIterations],
           maxConcurrency : ConcurrencyBudgets] : k \in 1..MaxReviewNodes }

NotRun == [iteration |-> 0, phase |-> "idle", feedbacks |-> 0, approved |-> FALSE]

someDependCompleted(node, status, depends) ==
  depends[node] = {} \/ \E d \in depends[node] : status[d] = "completed"

\* A node is ready iff all of its depends are completed.
dependsCompleted(node, status, depends) ==
  \A d \in depends[node] : status[d] = "completed"

dependsFailed(node, status, depends) ==
  \E d \in depends[node] : status[d] = "failed"

\* Some dependency is failed or skipped.
dependsBroken(node, status, depends) ==
  \E d \in depends[node] : status[d] \in {"failed", "skipped"}

\* Pending nodes with a failed or skipped dependency are marked skipped,
\* transitively (nodes in id order, dependencies first).
RECURSIVE skipDependents(_, _, _)
skipDependents(status, depends, k) ==
  IF k > Len(status) THEN status
  ELSE skipDependents(
         IF status[k] = "pending" /\ dependsBroken(k, status, depends)
         THEN [status EXCEPT ![k] = "skipped"] ELSE status,
         depends, k + 1)

\* Step 1 of the loop: pending nodes whose dependencies are satisfied
\* become ready.
promote(status, depends) ==
  [k \in DOMAIN status |->
     IF status[k] = "pending" /\ dependsCompleted(k, status, depends)
     THEN "ready" ELSE status[k]]

nodesIn(status, which) == {k \in DOMAIN status : status[k] \in which}

\* Step 2 of the loop: the sets of ready nodes that may be launched, as many
\* as the remaining concurrency budget permits.
launchable(status, maxConcurrency) ==
  LET ready == nodesIn(status, {"ready"})
      budget == maxConcurrency - Cardinality(nodesIn(status, {"running"}))
  IN  {S \in SUBSET ready : Cardinality(S) = Min(budget, Cardinality(ready))}

launch(status, S) ==
  [k \in DOMAIN status |-> IF k \in S THEN "running" ELSE status[k]]

\* The primary run of each launched node starts: its first iteration.
startRuns(run, S) ==
  [k \in DOMAIN run |->
     IF k \in S THEN [run[k] EXCEPT !.iteration = 1, !.phase = "primary"]
     ELSE run[k]]

reviewExhaustedLate(iteration, maxIterations) == iteration > maxIterations

\* review.maxIterations is reached.
reviewExhausted(iteration, maxIterations) == iteration >= maxIterations

\* The loop goes on while any node is pending, ready or running.
unfinished(status) == nodesIn(status, {"pending", "ready", "running"})

InitDag ==
  /\ dIn \in DagInputs
  /\ dStatus = [k \in 1..dIn.n |-> "pending"]
  /\ dRun = [k \in 1..dIn.n |-> NotRun]
  /\ dCall = [pc |-> "init", aborted |-> FALSE]

InitDagReview ==
  /\ dIn \in DagReviewInputs
  /\ dStatus = [k \in 1..dIn.n |-> "pending"]
  /\ dRun = [k \in 1..dIn.n |-> NotRun]
  /\ dCall = [pc |-> "init", aborted |-> FALSE]

IdleDag ==
  /\ dIn = [n |-> 0, depends |-> <<>>, review |-> <<>>, maxConcurrency |-> 1]
  /\ dStatus = <<>>
  /\ dRun = <<>>
  /\ dCall = [pc |-> "init", aborted |-> FALSE]

\* One pass of steps 1 and 2 from `status`, followed by the loop test.
schedulerPass(status, run) ==
  LET promoted == promote(skipDependents(status, dIn.depends, 1), dIn.depends)
  IN  \E S \in launchable(promoted, dIn.maxConcurrency) :
        /\ dStatus' = launch(promoted, S)
        /\ dRun' = startRuns(run, S)
        /\ dCall' = IF unfinished(launch(promoted, S)) = {}
                    THEN [pc |-> "returned", aborted |-> FALSE]
                    ELSE [pc |-> "running", aborted |-> FALSE]

\* executeDag is called: the first pass of the loop.
DagCall ==
  /\ dCall.pc = "init"
  /\ schedulerPass(dStatus, dRun)
  /\ UNCHANGED dIn
  /\ UNCHANGED exceptDag

\* Step 3 of the loop: the run of a running node ends the node, failed, or
\* completed when the task has no review block, and the loop is re-entered.
DagNodeFinishes(k, outcome) ==
  /\ dCall.pc = "running"
  /\ dStatus[k] = "running"
  /\ dRun[k].phase = "primary"
  /\ outcome = "completed" => dIn.review[k] = 0
  /\ schedulerPass([dStatus EXCEPT ![k] = outcome],
                   [dRun EXCEPT ![k].phase = "done"])
  /\ UNCHANGED dIn
  /\ UNCHANGED exceptDag

\* The primary run of a task with a review block produced its output: the
\* reviewer is invoked.
DagPrimaryReturns(k) ==
  /\ dCall.pc = "running"
  /\ dStatus[k] = "running"
  /\ dRun[k].phase = "primary"
  /\ dIn.review[k] > 0
  /\ dRun' = [dRun EXCEPT ![k].phase = "review"]
  /\ UNCHANGED <<dIn, dStatus, dCall>>
  /\ UNCHANGED exceptDag

\* The reviewer returns. On approval the node is completed; on feedback the
\* node re-runs with the feedback appended, unless review.maxIterations is
\* reached, and then it is completed with its last output.
DagReviewReturns(k, verdict) ==
  /\ dCall.pc = "running"
  /\ dStatus[k] = "running"
  /\ dRun[k].phase = "review"
  /\ IF verdict = "approved"
     THEN schedulerPass([dStatus EXCEPT ![k] = "completed"],
                        [dRun EXCEPT ![k].phase = "done", ![k].approved = TRUE])
     ELSE IF reviewExhausted(dRun[k].iteration, dIn.review[k])
     THEN schedulerPass([dStatus EXCEPT ![k] = "completed"],
                        [dRun EXCEPT ![k].phase = "done", ![k].feedbacks = @ + 1])
     ELSE /\ dRun' = [dRun EXCEPT ![k].phase = "primary",
                                  ![k].iteration = @ + 1,
                                  ![k].feedbacks = @ + 1]
          /\ UNCHANGED <<dStatus, dCall>>
  /\ UNCHANGED dIn
  /\ UNCHANGED exceptDag

\* The external cancel fires: unfinished nodes are marked skipped and the
\* call returns aborted.
DagCancel ==
  /\ dCall.pc = "running"
  /\ dStatus' = [k \in DOMAIN dStatus |->
                   IF k \in unfinished(dStatus) THEN "skipped" ELSE dStatus[k]]
  /\ dCall' = [pc |-> "returned", aborted |-> TRUE]
  /\ dRun' = [k \in DOMAIN dRun |->
                IF k \in unfinished(dStatus) THEN [dRun[k] EXCEPT !.phase = "done"]
                ELSE dRun[k]]
  /\ UNCHANGED dIn
  /\ UNCHANGED exceptDag

(***************************************************************************)
(* runAgentOnce: the progress record and the values passed to onProgress   *)
(***************************************************************************)

\* Most tool executions and most text previews of one run.
MaxToolEvents == 11
MaxOutputs == 6

\* progress.recentTools and progress.recentOutput keep this many entries.
RecentToolsCap == 10
RecentOutputCap == 5

\* Non-blank text parts of one assistant message.
TextParts == 0..2

fifoPushDropNewest(list, entry, cap) ==
  IF Len(list) + 1 > cap THEN list ELSE Append(list, entry)

\* list.push(entry); if (list.length > cap) list.shift()
fifoPush(list, entry, cap) ==
  IF Len(list) + 1 > cap THEN Tail(Append(list, entry)) ELSE Append(list, entry)

\* The loop over msg.content: previews first .. first + count - 1 are pushed.
RECURSIVE pushPreviews(_, _, _)
pushPreviews(list, first, count) ==
  IF count = 0 THEN list
  ELSE pushPreviews(fifoPush(list, first, RecentOutputCap), first + 1, count - 1)

NewProgress == [status |-> "running", currentTool |-> FALSE, recentTools |-> <<>>,
                recentOutput |-> <<>>, toolCount |-> 0]

NoSnapshot == [set |-> FALSE, live |-> FALSE, seen |-> NewProgress]

\* { ...progress }: a new object with the fields of progress.
shallowCopy(progress) ==
  [set |-> TRUE, live |-> FALSE, seen |-> progress]

\* progress itself, as the final emission passes it.
sameObject(progress) ==
  [set |-> TRUE, live |-> TRUE, seen |-> progress]

\* What the caller reads from a retained value now: the live record when it
\* was passed itself; for a copy, its own status and counters, and the two
\* arrays it shares with the live record.
snapshotValue(kept, progress) ==
  IF kept.live THEN progress
  ELSE [kept.seen EXCEPT !.recentTools = progress.recentTools,
                         !.recentOutput = progress.recentOutput]

\* result.exitCode: the code the exit promise resolved with, or 1 when an
\* API error was recorded and the result has no error yet.
resultExitCode(status, exitCode, apiError) ==
  LET hasError == exitCode # 0 /\ status # "aborted"
  IN  IF apiError /\ ~hasError THEN 1 ELSE exitCode

\* progress.status at the end of the run, from result.aborted and
\* result.exitCode.
finalStatus(status, exitCode) ==
  IF status = "aborted" THEN "aborted"
  ELSE IF exitCode = 0 THEN "completed" ELSE "failed"

InitProg ==
  /\ pProgress = NewProgress
  /\ pOutputs = 0
  /\ pKept = NoSnapshot
  /\ pCall \in [pc : {"init"}, exitCode : {0}, signal : SignalInputs, fired : {FALSE},
                child : {"none"}, code : {0}, apiError : {FALSE},
                tick : {FALSE}]

IdleProg ==
  /\ pProgress = NewProgress
  /\ pOutputs = 0
  /\ pKept = NoSnapshot
  /\ pCall = [pc |-> "init", exitCode |-> 0, signal |-> "none", fired |-> FALSE,
              child |-> "none", code |-> 0, apiError |-> FALSE,
              tick |-> FALSE]

\* onProgress is called with `snapshot`; the caller retains it or not.
onProgress(snapshot) == pKept' = snapshot \/ UNCHANGED pKept

\* The child's 'exit' and 'close' come in a later turn of the event loop:
\* not at pc "closed", where the exit promise is resolved and the
\* continuation of `await` runs before the next I/O callback.
laterTurn(call) == call.pc # "closed" /\ ~call.tick

\* The child's stdout delivers lines from the spawn until its 'close'. The
\* handlers stay registered after the run has returned, and the loop over
\* the lines of a chunk goes on when a caller that aborts inside onProgress
\* has resolved the exit promise (pc "closed"). No line comes before a
\* callback that spawn() queued for the next tick.
stdoutOpen(call) == call.child \in {"running", "exited"} /\ ~call.tick

\* The synchronous part of runAgentOnce; killProc runs at once for a caller
\* token that has already fired, and spawn() queues its abort handling for
\* the next tick: the call returns with the exit promise pending.
ProgCall ==
  /\ pCall.pc = "init"
  /\ IF pCall.signal = "aborted"
     THEN /\ pProgress' = [pProgress EXCEPT !.status = "aborted"]
          /\ onProgress(shallowCopy(pProgress'))
          /\ pCall' = [pCall EXCEPT !.pc = "running", !.fired = TRUE,
                                    !.child = "running", !.tick = TRUE]
     ELSE /\ pCall' = [pCall EXCEPT !.pc = "running", !.child = "running"]
          /\ UNCHANGED <<pProgress, pKept>>
  /\ UNCHANGED pOutputs
  /\ UNCHANGED exceptProg

\* The abort listener that spawn() queued for a token that had already
\* fired: it kills the child and the 'error' handler calls resolve(1).
ProgSpawnAbortTick ==
  /\ pCall.pc = "running"
  /\ pCall.tick
  /\ pCall' = [pCall EXCEPT !.pc = "closed", !.exitCode = 1, !.tick = FALSE]
  /\ UNCHANGED <<pProgress, pOutputs, pKept>>
  /\ UNCHANGED exceptProg

\* processLine: an assistant message_end with `parts` non-blank text parts;
\* `err` says that it has stopReason "error" and an errorMessage.
ProgMessageEnd(parts, err) ==
  /\ stdoutOpen(pCall)
  /\ pOutputs + parts <= MaxOutputs
  /\ pProgress' = [pProgress EXCEPT
                     !.recentOutput = pushPreviews(@, pOutputs + 1, parts)]
  /\ pOutputs' = pOutputs + parts
  /\ onProgress(shallowCopy(pProgress'))
  /\ pCall' = [pCall EXCEPT !.apiError = @ \/ err]
  /\ UNCHANGED exceptProg

\* processLine: tool_execution_start.
ProgToolStart ==
  /\ stdoutOpen(pCall)
  /\ pProgress' = [pProgress EXCEPT !.currentTool = TRUE]
  /\ onProgress(shallowCopy(pProgress'))
  /\ UNCHANGED <<pOutputs, pCall>>
  /\ UNCHANGED exceptProg

\* processLine: tool_execution_end.
ProgToolEnd ==
  /\ stdoutOpen(pCall)
  /\ pProgress.toolCount < MaxToolEvents
  /\ pProgress' =
       IF pProgress.currentTool
       THEN [pProgress EXCEPT
               !.recentTools = fifoPush(@, pProgress.toolCount + 1, RecentToolsCap),
               !.toolCount = @ + 1,
               !.currentTool = FALSE]
       ELSE pProgress
  /\ onProgress(shallowCopy(pProgress'))
  /\ UNCHANGED <<pOutputs, pCall>>
  /\ UNCHANGED exceptProg

\* The child ends ('exit') with `code`: it can no longer be killed; its
\* stdout may still be open.
ProgChildExit(code) ==
  /\ pCall.child = "running"
  /\ laterTurn(pCall)
  /\ pCall' = [pCall EXCEPT !.child = "exited", !.code = code]
  /\ UNCHANGED <<pProgress, pOutputs, pKept>>
  /\ UNCHANGED exceptProg

\* proc.on("close"): resolve(code); only the first resolve counts.
ProgChildClose ==
  /\ pCall.child = "exited"
  /\ laterTurn(pCall)
  /\ pCall' = IF pCall.pc = "running"
              THEN [pCall EXCEPT !.child = "closed", !.pc = "closed",
                                 !.exitCode = pCall.code]
              ELSE [pCall EXCEPT !.child = "closed"]
  /\ UNCHANGED <<pProgress, pOutputs, pKept>>
  /\ UNCHANGED exceptProg

\* The caller's token fires: killProc sets the status and emits; a child that
\* has not ended is killed and the exit promise resolves with 1 through the
\* 'error' handler; for a child that has ended proc.kill returns false and
\* the promise is left as it is. The listener stays registered after the run
\* has returned.
ProgCallerAbort ==
  /\ pCall.pc \in {"running", "closed", "returned"}
  /\ pCall.signal = "live"
  /\ ~pCall.fired
  /\ pProgress' = [pProgress EXCEPT !.status = "aborted"]
  /\ onProgress(shallowCopy(pProgress'))
  /\ pCall' = IF pCall.pc = "running" /\ pCall.child = "running"
              THEN [pCall EXCEPT !.pc = "closed", !.exitCode = 1, !.fired = TRUE]
              ELSE [pCall EXCEPT !.fired = TRUE]
  /\ UNCHANGED pOutputs
  /\ UNCHANGED exceptProg

\* The continuation after `await`: the final status is set and progress is
\* passed to onProgress.
ProgReturn ==
  /\ pCall.pc = "closed"
  /\ pProgress' = [pProgress EXCEPT
                     !.status = finalStatus(@, resultExitCode(@, pCall.exitCode,
                                                            pCall.apiError))]
  /\ onProgress(sameObject(pProgress'))
  /\ pCall' = [pCall EXCEPT !.pc = "returned"]
  /\ UNCHANGED pOutputs
  /\ UNCHANGED exceptProg

(***************************************************************************)
(* truncateOutput                                                          *)
(***************************************************************************)

\* Longest output string explored, in UTF-16 code units.
MaxOutputLen == 5

\* Code units of an output string: an ASCII letter, the newline, a unit
\* encoded in 3 bytes, and the two halves of a surrogate pair.
OutputUnits == {"a", "\n", "E3", "H", "L"}

\* Any string of those units, lone surrogates included.
OutputInputs == UNION { [1..n -> OutputUnits] : n \in 0..MaxOutputLen }

\* Limits scaled down from 50 KB and 2000 lines.
MaxBytesInputs == {3, 4}
MaxLinesInputs == {1, 2}

\* UTF-8 bytes that code unit i of str contributes: a pair makes 4 bytes, a
\* lone surrogate is encoded as U+FFFD, 3 bytes.
unitBytes(str, i) ==
  CASE str[i] \in {"a", "\n"} -> 1
    [] str[i] = "E3" -> 3
    [] str[i] = "H" -> IF i < Len(str) /\ str[i + 1] = "L" THEN 4 ELSE 3
    [] str[i] = "L" -> IF i > 1 /\ str[i - 1] = "H" THEN 0 ELSE 3

\* Buffer.byteLength(str, "utf-8")
RECURSIVE bytesUpTo(_, _)
bytesUpTo(str, i) == IF i = 0 THEN 0 ELSE bytesUpTo(str, i - 1) + unitBytes(str, i)
byteLength(str) == bytesUpTo(str, Len(str))

\* str.split("\n")
RECURSIVE split(_)
split(str) ==
  IF \A i \in DOMAIN str : str[i] # "\n" THEN <<str>>
  ELSE LET i == CHOOSE j \in DOMAIN str :
                  str[j] = "\n" /\ \A h \in 1..(j - 1) : str[h] # "\n"
       IN  <<SubSeq(str, 1, i - 1)>> \o split(SubSeq(str, i + 1, Len(str)))

\* lines.join("\n")
RECURSIVE join(_)
join(lines) ==
  IF Len(lines) = 0 THEN <<>>
  ELSE IF Len(lines) = 1 THEN lines[1]
  ELSE lines[1] \o <<"\n">> \o join(Tail(lines))

firstLines(lines, maxLines) ==
  IF Len(lines) > maxLines THEN SubSeq(lines, 1, maxLines) ELSE lines

\* lines.splice(0, lines.length - maxLines) when there are too many lines.
lastLines(lines, maxLines) ==
  IF Len(lines) > maxLines
  THEN SubSeq(lines, Len(lines) - maxLines + 1, Len(lines))
  ELSE lines

halveOnce(result, maxBytes) ==
  IF byteLength(result) > maxBytes /\ Len(result) > 0
  THEN SubSeq(result, (Len(result) \div 2) + 1, Len(result))
  ELSE result

\* while (byteLength(result) > maxBytes && result.length > 0)
\*   result = result.slice(Math.floor(result.length / 2))
RECURSIVE halve(_, _)
halve(result, maxBytes) ==
  IF byteLength(result) > maxBytes /\ Len(result) > 0
  THEN halve(SubSeq(result, (Len(result) \div 2) + 1, Len(result)), maxBytes)
  ELSE result

truncateOutput(output, maxBytes, maxLines) ==
  LET lines == split(output)
      result == join(lastLines(lines, maxLines))
  IN  [output |-> halve(result, maxBytes),
       truncated |-> Len(lines) > maxLines \/ byteLength(result) > maxBytes]

InitTrunc ==
  /\ uIn \in [output : OutputInputs, maxBytes : MaxBytesInputs,
               maxLines : MaxLinesInputs]
  /\ uOut = <<>>

IdleTrunc ==
  /\ uIn = [output |-> <<>>, maxBytes |-> 3, maxLines |-> 1]
  /\ uOut = <<>>

\* truncateOutput is applied to the output.
TruncCall ==
  /\ Len(uOut) = 0
  /\ uOut' = <<truncateOutput(uIn.output, uIn.maxBytes, uIn.maxLines)>>
  /\ UNCHANGED uIn
  /\ UNCHANGED exceptTrunc

\* truncateOutput is applied to what it returned.
TruncAgain ==
  /\ Len(uOut) = 1
  /\ uOut' = Append(uOut, truncateOutput(uOut[1].output, uIn.maxBytes, uIn.maxLines))
  /\ UNCHANGED uIn
  /\ UNCHANGED exceptTrunc

(***************************************************************************)
(* resolveAgentInheritance                                                 *)
(***************************************************************************)

\* Most agents in the list passed to the resolver.
MaxAgents == 3

\* An absent (undefined) name, model or thinking. The resolver only tests
\* tools and resolvedTools for being non-empty, and only ever assigns a
\* non-empty resolvedTools, so the empty list stands for their absence.
Undefined == "undefined"

AgentNames == <<"scout", "planner", "worker", "reviewer", "auditor">>
MissingAgent == "ghost"

ToolInputs == {<<>>, <<"read", "read">>, <<"grep", "read">>}

SettingInputs ==
  {[model |-> Undefined, thinking |-> Undefined],
   [model |-> "haiku", thinking |-> "high"]}

\* Agents as loadAgentsFromDir builds them: distinct names, nothing resolved.
agentsFrom(n, t, e, c) ==
  [i \in 1..n |->
     [name |-> AgentNames[i], tools |-> t[i], extends |-> e[i],
      model |-> c[i].model, thinking |-> c[i].thinking,
      resolvedTools |-> <<>>, resolvedModel |-> Undefined,
      resolvedThinking |-> Undefined]]

ExtendsInputs(n) == {Undefined, MissingAgent} \cup {AgentNames[j] : j \in 1..n}

\* agentMap.get(name): the last agent of the list with that name, 0 if none.
agentMap(agents, name) ==
  IF \E i \in DOMAIN agents : agents[i].name = name
  THEN CHOOSE i \in DOMAIN agents :
         /\ agents[i].name = name
         /\ \A j \in DOMAIN agents : agents[j].name = name => j <= i
  ELSE 0

\* [...new Set(list)]: first occurrences, in order.
RECURSIVE uniqueInOrder(_)
uniqueInOrder(list) ==
  IF Len(list) = 0 THEN <<>>
  ELSE LET front == uniqueInOrder(SubSeq(list, 1, Len(list) - 1))
           last == list[Len(list)]
       IN  IF \E i \in DOMAIN front : front[i] = last THEN front
           ELSE Append(front, last)

\* a || b and a ?? b on fields that are either absent or a non-empty value
orElse(a, b) == IF a # Undefined THEN a ELSE b

\* baseAgent.resolvedTools || baseAgent.tools || []
toolsOrElse(a, b) == IF Len(a) > 0 THEN a ELSE b

\* The branch of resolve for an agent that extends an already resolved base.
mergeBase(agent, baseAgent) ==
  LET baseTools == toolsOrElse(baseAgent.resolvedTools, baseAgent.tools)
      combinedTools == uniqueInOrder(baseTools \o agent.tools)
  IN  [agent EXCEPT
         !.resolvedTools = IF Len(combinedTools) > 0 THEN combinedTools ELSE @,
         !.resolvedModel =
           orElse(agent.model, orElse(baseAgent.resolvedModel, baseAgent.model)),
         !.resolvedThinking =
           IF agent.thinking = Undefined
           THEN orElse(baseAgent.resolvedThinking, baseAgent.thinking)
           ELSE @]

\* The branch of resolve for an agent without extends.
copyOwn(agent) ==
  [agent EXCEPT
     !.resolvedTools = IF Len(agent.tools) > 0 THEN agent.tools ELSE @,
     !.resolvedModel = IF agent.model # Undefined THEN agent.model ELSE @,
     !.resolvedThinking = IF agent.thinking # Undefined THEN agent.thinking ELSE @]

NoThrow == "none"
CircularError == "Circular inheritance detected"
BaseNotFound == "Base agent not found"

\* The state resolve closes over: the agents (mutated in place), the
\* visited and resolved sets, and the error thrown, if any.
throw(st, error) == [st EXCEPT !.error = error]

\* resolveAgent(agentName, path)
RECURSIVE resolveAgent(_, _, _)
resolveAgent(st, agentName, path) ==
  LET i == agentMap(st.agents, agentName) IN
  IF \E j \in DOMAIN path : path[j] = agentName THEN throw(st, CircularError)
  ELSE IF i = 0 THEN throw(st, BaseNotFound)
  ELSE IF agentName \in st.resolved THEN st
  ELSE IF agentName \in st.visited THEN throw(st, CircularError)
  ELSE
    LET agent == st.agents[i]
        entered == [st EXCEPT !.visited = @ \cup {agentName}]
        after ==
          IF agent.extends # Undefined
          THEN LET base == resolveAgent(entered, agent.extends, Append(path, agentName))
               IN  IF base.error # NoThrow THEN base
                   ELSE [base EXCEPT !.agents[i] =
                           mergeBase(base.agents[i],
                                     base.agents[agentMap(base.agents, agent.extends)])]
          ELSE [entered EXCEPT !.agents[i] = copyOwn(agent)]
    IN  IF after.error # NoThrow THEN after
        ELSE [after EXCEPT !.resolved = @ \cup {agentName},
                           !.visited = @ \ {agentName}]

\* for (const agent of agents) if (!resolved.has(agent.name)) resolve(agent.name)
RECURSIVE resolveAll(_, _)
resolveAll(st, k) ==
  IF k > Len(st.agents) \/ st.error # NoThrow THEN st
  ELSE resolveAll(IF st.agents[k].name \in st.resolved THEN st
                  ELSE resolveAgent(st, st.agents[k].name, <<>>),
                  k + 1)

resolveAgentInheritance(agents) ==
  resolveAll([agents |-> agents, visited |-> {}, resolved |-> {},
              error |-> NoThrow], 1)

InitAgents ==
  /\ \E n \in 1..MaxAgents :
       \E t \in [1..n -> ToolInputs], e \in [1..n -> ExtendsInputs(n)],
          c \in [1..n -> SettingInputs] :
         aIn = agentsFrom(n, t, e, c)
  /\ aAgents = aIn
  /\ aCall = [pc |-> "idle", error |-> NoThrow]

IdleAgents ==
  /\ aIn = <<>>
  /\ aAgents = <<>>
  /\ aCall = [pc |-> "idle", error |-> NoThrow]

\* resolveAgentInheritance(agents) runs to its return or to its throw.
AgentsResolve ==
  /\ aCall.pc = "idle"
  /\ LET out == resolveAgentInheritance(aIn)
     IN  /\ aAgents' = out.agents
         /\ aCall' = [pc |-> IF out.error = NoThrow THEN "returned" ELSE "threw",
                      error |-> out.error]
  /\ UNCHANGED aIn
  /\ UNCHANGED exceptAgents

(***************************************************************************)
(* calculateBackoff over successive attempts                               *)
(***************************************************************************)

\* Highest attempt number explored.
MaxBackoffAttempts == 8

BaseMsInputs ==
  {0, 1, 100, 250, 500, 1000, 1500, 5000, 10000, 30000, 45000, 59999, 60000,
   60001, 70000, 120000}

InitBackoff ==
  /\ bIn \in BaseMsInputs
  /\ bDelays = <<>>

IdleBackoff ==
  /\ bIn = 0
  /\ bDelays = <<>>

\* calculateBackoff(baseMs, attempt) for the next attempt.
BackoffAttempt ==
  /\ Len(bDelays) < MaxBackoffAttempts
  /\ bDelays' = Append(bDelays, calculateBackoff(bIn, Len(bDelays) + 1))
  /\ UNCHANGED bIn
  /\ UNCHANGED exceptBackoff

(***************************************************************************)
(* processLine: the events read from the child's stdout                    *)
(***************************************************************************)

\* Most stdout lines explored in one run.
MaxEventLines == 4

ToolNames == {"read", "bash"}

TextPart(text) == [type |-> "text", text |-> text]
ToolCallPart == [type |-> "toolCall", text |-> ""]

\* message.content of the assistant messages explored.
ContentInputs ==
  {<<ToolCallPart>>, <<TextPart("a")>>, <<TextPart("a"), ToolCallPart, TextPart("b")>>}

NoMessage == [role |-> "none", content |-> <<>>]

\* A stdout line by what JSON.parse makes of it: a blank line, text that
\* is not JSON, the JSON values null and 42, and objects with a type.
Line(json, type, toolName, message) ==
  [json |-> json, type |-> type, toolName |-> toolName, message |-> message]

EventLines ==
  { Line("blank", "", "", NoMessage), Line("invalid", "", "", NoMessage),
    Line("null", "", "", NoMessage), Line("number", "", "", NoMessage),
    Line("object", "session", "", NoMessage),
    Line("object", "tool_execution_end", "", NoMessage),
    Line("object", "message_end", "", [role |-> "user", content |-> <<TextPart("u")>>]),
    Line("object", "tool_result_end", "",
         [role |-> "toolResult", content |-> <<TextPart("r")>>]) }
  \cup { Line("object", "tool_execution_start", t, NoMessage) : t \in ToolNames }
  \cup { Line("object", "message_end", "", [role |-> "assistant", content |-> c]) :
           c \in ContentInputs }

NewEventState ==
  [messages |-> <<>>, turns |-> 0, currentTool |-> "", toolCount |-> 0,
   toolUsage |-> [t \in ToolNames |-> 0], emitted |-> 0, threw |-> FALSE]

\* emitProgress()
emitProgress(st) == [st EXCEPT !.emitted = @ + 1]

\* if (event.type === "message_end" && event.message)
onMessageEnd(st, event) ==
  LET pushed == [st EXCEPT !.messages = Append(@, event.message)]
  IN  IF event.message.role = "assistant"
      THEN emitProgress([pushed EXCEPT !.turns = @ + 1])
      ELSE pushed

\* if (event.type === "tool_execution_start")
onToolStart(st, event) == emitProgress([st EXCEPT !.currentTool = event.toolName])

\* if (event.type === "tool_execution_end")
onToolEnd(st, event) ==
  LET counted ==
        IF st.currentTool # ""
        THEN [st EXCEPT !.toolCount = @ + 1, !.toolUsage[st.currentTool] = @ + 1]
        ELSE st
  IN  emitProgress([counted EXCEPT !.currentTool = ""])

\* if (event.type === "tool_result_end" && event.message)
onToolResultEnd(st, event) ==
  emitProgress([st EXCEPT !.messages = Append(@, event.message)])

\* processLine(line). Reading event.type of the value null throws a
\* TypeError; of a number it is undefined.
processLine(st, line) ==
  CASE line.json \in {"blank", "invalid"} -> st
    [] line.json = "null" -> [st EXCEPT !.threw = TRUE]
    [] line.json = "number" -> st
    [] line.json = "object" ->
         CASE line.type = "message_end" /\ line.message # NoMessage ->
                onMessageEnd(st, line)
           [] line.type = "tool_execution_start" -> onToolStart(st, line)
           [] line.type = "tool_execution_end" -> onToolEnd(st, line)
           [] line.type = "tool_result_end" /\ line.message # NoMessage ->
                onToolResultEnd(st, line)
           [] OTHER -> st

\* The text parts of a message content, in order.
RECURSIVE textsOf(_)
textsOf(content) ==
  IF Len(content) = 0 THEN <<>>
  ELSE (IF content[1].type = "text" THEN <<content[1].text>> ELSE <<>>)
         \o textsOf(Tail(content))

\* getFinalOutput(messages): from the last message backwards, the first
\* text part of the first assistant message that has one.
RECURSIVE getFinalOutput(_)
getFinalOutput(messages) ==
  IF Len(messages) = 0 THEN ""
  ELSE LET msg == messages[Len(messages)]
       IN  IF msg.role = "assistant" /\ Len(textsOf(msg.content)) > 0
           THEN textsOf(msg.content)[1]
           ELSE getFinalOutput(SubSeq(messages, 1, Len(messages) - 1))

InitEvents ==
  /\ eSeen = <<>>
  /\ eState = NewEventState
  /\ eCall = [pc |-> "running", output |-> ""]

IdleEvents ==
  /\ eSeen = <<>>
  /\ eState = NewEventState
  /\ eCall = [pc |-> "idle", output |-> ""]

\* A complete line of the child's stdout reaches processLine. An exception
\* of processLine leaves the 'data' listener uncaught.
EventLine(line) ==
  /\ eCall.pc = "running"
  /\ Len(eSeen) < MaxEventLines
  /\ eSeen' = Append(eSeen, line)
  /\ eState' = processLine(eState, line)
  /\ eCall' = IF eState'.threw THEN [eCall EXCEPT !.pc = "threw"] ELSE eCall
  /\ UNCHANGED exceptEvents

\* The child closes and the result is built: getFinalOutput(messages).
EventReturn ==
  /\ eCall.pc = "running"
  /\ eCall' = [pc |-> "returned", output |-> getFinalOutput(eState.messages)]
  /\ UNCHANGED <<eSeen, eState>>
  /\ UNCHANGED exceptEvents

(***************************************************************************)
(* The stdout handlers: chunks, buffer and lines                           *)
(***************************************************************************)

\* Most characters the child writes in one run.
MaxStreamChars == 4

\* Characters of the stream: an ASCII letter, the newline, and U+00E9,
\* which UTF-8 encodes in the two bytes C3 A9.
StreamChars == {"a", "\n", "U+00E9"}

StreamInputs == UNION { [1..n -> StreamChars] : n \in 0..MaxStreamChars }

\* The bytes the child writes for a string.
RECURSIVE utf8(_)
utf8(str) ==
  IF Len(str) = 0 THEN <<>>
  ELSE (IF str[1] = "U+00E9" THEN <<"C3", "A9">> ELSE <<str[1]>>) \o utf8(Tail(str))

\* data.toString(): the chunk decoded on its own; a byte sequence cut off
\* by the chunk's edge decodes to U+FFFD.
RECURSIVE toString(_)
toString(bytes) ==
  IF Len(bytes) = 0 THEN <<>>
  ELSE IF bytes[1] = "C3" /\ Len(bytes) >= 2 /\ bytes[2] = "A9"
       THEN <<"U+00E9">> \o toString(SubSeq(bytes, 3, Len(bytes)))
  ELSE IF bytes[1] \in {"C3", "A9"}
       THEN <<"U+FFFD">> \o toString(Tail(bytes))
  ELSE <<bytes[1]>> \o toString(Tail(bytes))

\* line.trim() is empty; the streams explored hold no other white space.
blank(line) == \A i \in DOMAIN line : line[i] = "\n"

\* The lines among `lines` that get past `if (!line.trim()) return`.
RECURSIVE parsedLines(_)
parsedLines(lines) ==
  IF Len(lines) = 0 THEN <<>>
  ELSE (IF blank(lines[1]) THEN <<>> ELSE <<lines[1]>>) \o parsedLines(Tail(lines))

\* proc.on("close"): if (buffer.trim()) processLine(buffer)
flush(buffer) == IF blank(buffer) THEN <<>> ELSE <<buffer>>

InitStdout ==
  /\ oIn \in StreamInputs
  /\ oPos = 0
  /\ oBuffer = <<>>
  /\ oLines = <<>>
  /\ oCall = [pc |-> "running", splitChar |-> FALSE]

IdleStdout ==
  /\ oIn = <<>>
  /\ oPos = 0
  /\ oBuffer = <<>>
  /\ oLines = <<>>
  /\ oCall = [pc |-> "idle", splitChar |-> FALSE]

\* proc.stdout.on("data"): the next k bytes arrive as one chunk.
StdoutData(k) ==
  /\ oCall.pc = "running"
  /\ oPos + k <= Len(utf8(oIn))
  /\ LET bytes == utf8(oIn)
         data == SubSeq(bytes, oPos + 1, oPos + k)
         lines == split(oBuffer \o toString(data))
     IN  /\ oBuffer' = lines[Len(lines)]
         /\ oLines' = oLines \o parsedLines(SubSeq(lines, 1, Len(lines) - 1))
         /\ oCall' = [oCall EXCEPT !.splitChar = @ \/ bytes[oPos + k] = "C3"]
  /\ oPos' = oPos + k
  /\ UNCHANGED oIn
  /\ UNCHANGED exceptStdout

\* proc.on("close"), after the last chunk.
StdoutClose ==
  /\ oCall.pc = "running"
  /\ oPos = Len(utf8(oIn))
  /\ oLines' = oLines \o flush(oBuffer)
  /\ oCall' = [oCall EXCEPT !.pc = "closed"]
  /\ UNCHANGED <<oIn, oPos, oBuffer>>
  /\ UNCHANGED exceptStdout

(***************************************************************************)
(* runAgent: the retry loop around runAgentOnce, with cancellation         *)
(***************************************************************************)

RunRetryInputs ==
  [present : {TRUE}, maxAttempts : 1..MaxAttempts, backoffMs : BackoffInputs,
   retryOn : {Absent, Pats(<<P_net>>)}, skipOn : {Absent}]

\* What the child of one attempt has written when its result is built.
RunEnvInputs ==
  [apiError : {S_Empty, S_ApiError}, stderr : {S_Empty, S_Stderr},
   open : {0}, heapOver : {FALSE}]

NoRun == [status |-> "running", exit |-> NoExit, child |-> "none",
          code |-> NoCode, timer |-> "off", tick |-> FALSE]

\* runAgentOnce up to its await, for an attempt of the retry loop: the
\* duration timer is armed and the child is spawned; with a caller token
\* that has already fired killProc runs at once and spawn() queues its
\* abort handling for the next tick. The exit promise is pending.
startAttempt(callerFired, in) ==
  [status |-> IF callerFired THEN "aborted" ELSE "running",
   exit |-> NoExit,
   child |-> "running",
   code |-> NoCode,
   timer |-> IF truthy(in.maxDurationMs) THEN "armed" ELSE "off",
   tick |-> callerFired]

InitRun ==
  /\ gIn \in [retry : RunRetryInputs, signal : {"none", "live"},
               maxDurationMs : DurationInputs]
  /\ gSig = [caller |-> FALSE, duration |-> FALSE, ended |-> FALSE, stale |-> 0]
  /\ gAttempt = 1
  /\ gRun = NoRun
  /\ gSpawned = 0
  /\ gCall = [pc |-> "init", r |-> NoTaskResult]

IdleRun ==
  /\ gIn = [retry |-> NoRetry, signal |-> "none", maxDurationMs |-> NoLimit]
  /\ gSig = [caller |-> FALSE, duration |-> FALSE, ended |-> FALSE, stale |-> 0]
  /\ gAttempt = 1
  /\ gRun = NoRun
  /\ gSpawned = 0
  /\ gCall = [pc |-> "init", r |-> NoTaskResult]

\* runAgent(options) with options.retry: the loop is entered and the first
\* attempt spawns its child.
RunCall ==
  /\ gCall.pc = "init"
  /\ gCall' = [gCall EXCEPT !.pc = "running"]
  /\ gRun' = startAttempt(gSig.caller, gIn)
  /\ gSpawned' = gSpawned + 1
  /\ UNCHANGED <<gIn, gSig, gAttempt>>
  /\ UNCHANGED exceptRun

\* The abort listener that spawn() queued for a token that had already
\* fired: it kills the child and the 'error' handler calls resolve(1).
RunSpawnAbortTick ==
  /\ gCall.pc = "running"
  /\ gRun.tick
  /\ gRun' = [gRun EXCEPT !.exit = resolve(@, 1), !.tick = FALSE]
  /\ UNCHANGED <<gIn, gSig, gAttempt, gSpawned, gCall>>
  /\ UNCHANGED exceptRun

\* The child of the attempt in flight ends ('exit'): it can no longer be
\* killed and spawn's abort listener is removed; its pipes may still be
\* open, and the exit promise is settled only by 'close'.
RunChildExit(c) ==
  /\ gCall.pc = "running"
  /\ ~gRun.tick
  /\ gRun.child = "running"
  /\ gRun' = [gRun EXCEPT !.child = "exited", !.code = c]
  /\ UNCHANGED <<gIn, gSig, gAttempt, gSpawned, gCall>>
  /\ UNCHANGED exceptRun

\* proc.on("close") of the attempt in flight: resolve(code ?? 0).
RunChildClose ==
  /\ gCall.pc = "running"
  /\ ~gRun.tick
  /\ gRun.child = "exited"
  /\ gRun' = [gRun EXCEPT
                !.child = "closed",
                !.exit = resolve(@, IF gRun.code.null THEN 0 ELSE gRun.code.code)]
  /\ UNCHANGED <<gIn, gSig, gAttempt, gSpawned, gCall>>
  /\ UNCHANGED exceptRun

\* The caller's token fires: during an attempt, during a backoff sleep or
\* after the return. During an attempt killProc sets the status; a child
\* that has not ended is killed and the exit promise resolves with 1.
RunCallerAbort ==
  /\ gCall.pc \in {"running", "backoff", "returned"}
  /\ ~gRun.tick
  /\ gIn.signal = "live"
  /\ ~gSig.caller
  /\ gSig' = [gSig EXCEPT !.caller = TRUE]
  /\ gRun' = IF gCall.pc = "running"
             THEN [gRun EXCEPT
                     !.status = "aborted",
                     !.exit = IF gRun.child = "running" THEN resolve(@, 1) ELSE @]
             ELSE gRun
  /\ UNCHANGED <<gIn, gAttempt, gSpawned, gCall>>
  /\ UNCHANGED exceptRun

\* The duration timer of the attempt in flight fires: its signal aborts;
\* spawn's abort handling kills a child that has not ended and resolves the
\* exit promise with 1, which ends the attempt.
RunDurationTimer ==
  /\ gCall.pc = "running"
  /\ ~gRun.tick
  /\ gRun.timer = "armed"
  /\ gSig' = [gSig EXCEPT
                !.duration = TRUE,
                !.ended = @ \/ (gRun.child = "running" /\ ~gRun.exit.set)]
  /\ gRun' = [gRun EXCEPT
                !.timer = "fired",
                !.exit = IF gRun.child = "running" THEN resolve(@, 1) ELSE @]
  /\ UNCHANGED <<gIn, gAttempt, gSpawned, gCall>>
  /\ UNCHANGED exceptRun

\* runAgentOnce returns its result to the loop, which returns it or sleeps.
\* A duration timer that has not fired stays pending: nothing clears it.
RunAttemptReturns(env) ==
  /\ gCall.pc = "running"
  /\ gRun.exit.set
  /\ LET result == buildResult(gRun.exit.code, gRun.status, env,
                               gSig.caller \/ gRun.timer = "fired")
         next == afterAttempt(result, gAttempt, gIn.retry)
     IN  gCall' = [pc |-> next.pc,
                   r |-> IF next.pc = "returned" THEN result ELSE gCall.r]
  /\ gSig' = [gSig EXCEPT !.stale = IF gRun.timer = "armed" THEN @ + 1 ELSE @]
  /\ UNCHANGED <<gIn, gAttempt, gRun, gSpawned>>
  /\ UNCHANGED exceptRun

\* The duration timer of an attempt that has returned fires, during a
\* backoff sleep, a later attempt or after the return of runAgent: its
\* controller aborts; the child of that attempt has ended or was killed
\* before, and the attempt in flight has its own signal.
RunStaleDurationTimer ==
  /\ gCall.pc \in {"running", "backoff", "returned"}
  /\ ~gRun.tick
  /\ gSig.stale > 0
  /\ gSig' = [gSig EXCEPT !.stale = @ - 1, !.duration = TRUE]
  /\ UNCHANGED <<gIn, gAttempt, gRun, gSpawned, gCall>>
  /\ UNCHANGED exceptRun

\* The backoff timer fires: attempt++ and the next attempt spawns its child.
RunBackoffDone ==
  /\ gCall.pc = "backoff"
  /\ gAttempt' = gAttempt + 1
  /\ gCall' = [gCall EXCEPT !.pc = "running"]
  /\ gRun' = startAttempt(gSig.caller, gIn)
  /\ gSpawned' = gSpawned + 1
  /\ UNCHANGED <<gIn, gSig>>
  /\ UNCHANGED exceptRun

(***************************************************************************)
(* Specifications                                                          *)
(***************************************************************************)

NextMap ==
  \/ MapCall
  \/ \E k \in DOMAIN mWorker : MapFnResolve(k)
  \/ \E k \in DOMAIN mWorker : MapFnReject(k)
  \/ MapExternalAbort
  \/ MapSettle

MapInit == InitMap /\ IdleRace /\ IdleRetry /\ IdlePolicy /\ IdleExec /\ IdleDag /\ IdleProg /\ IdleTrunc /\ IdleAgents /\ IdleBackoff /\ IdleEvents /\ IdleStdout /\ IdleRun

SpecMap == MapInit /\ [][NextMap]_vars

NextRace ==
  \/ RaceCall
  \/ \E i \in DOMAIN rTask : RaceTaskResolve(i)
  \/ \E i \in DOMAIN rTask : RaceTaskReject(i)
  \/ RaceParentAbort
  \/ RaceSettle

RaceInit == IdleMap /\ InitRace /\ IdleRetry /\ IdlePolicy /\ IdleExec /\ IdleDag /\ IdleProg /\ IdleTrunc /\ IdleAgents /\ IdleBackoff /\ IdleEvents /\ IdleStdout /\ IdleRun

SpecRace == RaceInit /\ [][NextRace]_vars

NextRetry ==
  \/ RetryCall
  \/ RetrySingleReturns
  \/ RetryAttemptReturns
  \/ RetryBackoffDone

RetryInit == IdleMap /\ IdleRace /\ InitRetry /\ IdlePolicy /\ IdleExec /\ IdleDag /\ IdleProg /\ IdleTrunc /\ IdleAgents /\ IdleBackoff /\ IdleEvents /\ IdleStdout /\ IdleRun

SpecRetry == RetryInit /\ [][NextRetry]_vars

NextPolicy == PolicyCall

PolicyInit == IdleMap /\ IdleRace /\ IdleRetry /\ InitPolicy /\ IdleExec /\ IdleDag /\ IdleProg /\ IdleTrunc /\ IdleAgents /\ IdleBackoff /\ IdleEvents /\ IdleStdout /\ IdleRun

SpecPolicy == PolicyInit /\ [][NextPolicy]_vars

NextExec ==
  \/ ExecCall
  \/ ExecSpawnAbortTick
  \/ ExecApiErrorMessage
  \/ ExecStderrData
  \/ ExecToolStart
  \/ ExecToolEnd
  \/ ExecHeapGrows
  \/ \E c \in CloseCodes : ExecChildExit(c)
  \/ ExecChildClose
  \/ ExecSpawnError
  \/ ExecCallerAbort
  \/ ExecDurationTimer
  \/ ExecKillTimer
  \/ ExecReturn

ExecInit == IdleMap /\ IdleRace /\ IdleRetry /\ IdlePolicy /\ InitExec /\ IdleDag /\ IdleProg /\ IdleTrunc /\ IdleAgents /\ IdleBackoff /\ IdleEvents /\ IdleStdout /\ IdleRun

SpecExec == ExecInit /\ [][NextExec]_vars

NextDag ==
  \/ DagCall
  \/ \E k \in DOMAIN dStatus : \E outcome \in {"completed", "failed"} :
       DagNodeFinishes(k, outcome)
  \/ DagCancel

DagInit ==
  IdleMap /\ IdleRace /\ IdleRetry /\ IdlePolicy /\ IdleExec /\ InitDag /\ IdleProg /\ IdleTrunc /\ IdleAgents /\ IdleBackoff /\ IdleEvents /\ IdleStdout /\ IdleRun

SpecDag == DagInit /\ [][NextDag]_vars

NextDagReview ==
  \/ DagCall
  \/ \E k \in DOMAIN dStatus : \E outcome \in {"completed", "failed"} :
       DagNodeFinishes(k, outcome)
  \/ DagCancel
  \/ \E k \in DOMAIN dStatus : DagPrimaryReturns(k)
  \/ \E k \in DOMAIN dStatus : \E verdict \in {"approved", "feedback"} :
       DagReviewReturns(k, verdict)

DagReviewInit ==
  IdleMap /\ IdleRace /\ IdleRetry /\ IdlePolicy /\ IdleExec /\ InitDagReview
  /\ IdleProg /\ IdleTrunc /\ IdleAgents /\ IdleBackoff /\ IdleEvents /\ IdleStdout /\ IdleRun

SpecDagReview == DagReviewInit /\ [][NextDagReview]_vars

NextProg ==
  \/ ProgCall
  \/ ProgSpawnAbortTick
  \/ \E parts \in TextParts, err \in BOOLEAN : ProgMessageEnd(parts, err)
  \/ ProgToolStart
  \/ ProgToolEnd
  \/ \E code \in {0, 1} : ProgChildExit(code)
  \/ ProgChildClose
  \/ ProgCallerAbort
  \/ ProgReturn

ProgInit ==
  IdleMap /\ IdleRace /\ IdleRetry /\ IdlePolicy /\ IdleExec /\ IdleDag /\ InitProg /\ IdleTrunc /\ IdleAgents /\ IdleBackoff /\ IdleEvents /\ IdleStdout /\ IdleRun

SpecProg == ProgInit /\ [][NextProg]_vars

NextTrunc ==
  \/ TruncCall
  \/ TruncAgain

TruncInit ==
  IdleMap /\ IdleRace /\ IdleRetry /\ IdlePolicy /\ IdleExec /\ IdleDag /\ IdleProg
  /\ InitTrunc /\ IdleAgents /\ IdleBackoff /\ IdleEvents /\ IdleStdout /\ IdleRun

SpecTrunc == TruncInit /\ [][NextTrunc]_vars

NextAgents ==
  \/ AgentsResolve

AgentsInit ==
  IdleMap /\ IdleRace /\ IdleRetry /\ IdlePolicy /\ IdleExec /\ IdleDag /\ IdleProg
  /\ IdleTrunc /\ InitAgents /\ IdleBackoff /\ IdleEvents /\ IdleStdout /\ IdleRun

SpecAgents == AgentsInit /\ [][NextAgents]_vars

NextBackoff ==
  \/ BackoffAttempt

BackoffInit ==
  IdleMap /\ IdleRace /\ IdleRetry /\ IdlePolicy /\ IdleExec /\ IdleDag /\ IdleProg
  /\ IdleTrunc /\ IdleAgents /\ InitBackoff /\ IdleEvents /\ IdleStdout /\ IdleRun

SpecBackoff == BackoffInit /\ [][NextBackoff]_vars

NextEvents ==
  \/ \E line \in EventLines : EventLine(line)
  \/ EventReturn

EventsInit ==
  IdleMap /\ IdleRace /\ IdleRetry /\ IdlePolicy /\ IdleExec /\ IdleDag /\ IdleProg
  /\ IdleTrunc /\ IdleAgents /\ IdleBackoff /\ InitEvents /\ IdleStdout /\ IdleRun

SpecEvents == EventsInit /\ [][NextEvents]_vars

NextStdout ==
  \/ \E k \in 1..(2 * MaxStreamChars) : StdoutData(k)
  \/ StdoutClose

StdoutInit ==
  IdleMap /\ IdleRace /\ IdleRetry /\ IdlePolicy /\ IdleExec /\ IdleDag /\ IdleProg
  /\ IdleTrunc /\ IdleAgents /\ IdleBackoff /\ IdleEvents /\ InitStdout /\ IdleRun

SpecStdout == StdoutInit /\ [][NextStdout]_vars

NextRun ==
  \/ RunCall
  \/ RunSpawnAbortTick
  \/ \E c \in CloseCodes : RunChildExit(c)
  \/ RunChildClose
  \/ RunStaleDurationTimer
  \/ RunCallerAbort
  \/ RunDurationTimer
  \/ \E env \in RunEnvInputs : RunAttemptReturns(env)
  \/ RunBackoffDone

RunInit ==
  IdleMap /\ IdleRace /\ IdleRetry /\ IdlePolicy /\ IdleExec /\ IdleDag /\ IdleProg
  /\ IdleTrunc /\ IdleAgents /\ IdleBackoff /\ IdleEvents /\ IdleStdout /\ InitRun

SpecRun == RunInit /\ [][NextRun]_vars


(***************************************************************************)
(* Claims about mapWithConcurrencyLimit (checked under SpecMap)            *)
(***************************************************************************)

mapSettled == mCall.pc \in {"returned", "raised"}

Range(seq) == { seq[i] : i \in DOMAIN seq }

\* C1: when the call returns without cancellation or error, results has
\* exactly items.length entries and results[i] is fn(items[i], i), whatever
\* order the fn calls resolved in.
C1_ResultsInInputOrder ==
  (mCall.pc = "returned" /\ ~mCall.aborted) =>
    /\ DOMAIN mResults = 0..(Len(mIn.items) - 1)
    /\ \A i \in DOMAIN mResults :
         /\ mResults[i].set
         /\ mResults[i].v = fn(mIn.items[i + 1], i)

\* C1 witness: three items with different values, resolved out of input
\* order, and the call has returned them.
C1_Witness ==
  /\ mCall.pc = "returned" /\ ~mCall.aborted
  /\ Len(mIn.items) = 3
  /\ mIn.items[1] # mIn.items[2]
  /\ Len(mOrder) = 3
  /\ mOrder[1] > mOrder[2]

\* The limit of the claim: the concurrency is normalized first (items.length
\* for a non-finite or non-positive value, its floor otherwise) and then
\* clamped to 1 .. items.length.
C2_Limit(c, n) ==
  LET normalized == IF c.kind # "num" \/ c.tenths <= 0 THEN n ELSE c.tenths \div 10
  IN  Max(1, Min(normalized, n))

\* C2: at every instant the number of fn calls started and not yet settled
\* is at most limit = max(1, min(normalized concurrency, items.length)),
\* also after a fail-fast error or a cancellation.
C2_InFlightAtMostLimit ==
  InFlight <= C2_Limit(mIn.conc, Len(mIn.items))

\* What the code keeps: the calls in flight never exceed the number of
\* workers it created, in every interleaving, also after a fail-fast error
\* or a cancellation; and they never exceed the claim's limit for a
\* concurrency that is not strictly between 0 and 1.
C2_InFlightAtMostWorkers ==
  /\ InFlight <= limit(mIn.conc, Len(mIn.items))
  /\ ~(mIn.conc.kind = "num" /\ mIn.conc.tenths \in 1..9) =>
       InFlight <= C2_Limit(mIn.conc, Len(mIn.items))

\* C3 (as amended): when a worker sees its fn call fail while neither cancel
\* has fired, the call can settle at once, in-flight fn calls of other workers
\* notwithstanding; it rejects with exactly that first error, unless the
\* external cancel fires before the caller resumes, and then it returns
\* aborted = true.
C3_FailFast ==
  /\ (mFirstErr.set /\ mCall.pc = "pending") => ENABLED MapSettle
  /\ (mFirstErr.set /\ mapSettled) =>
       \/ mCall.pc = "raised" /\ mCall.err = mFirstErr.e
       \/ mCall.pc = "returned" /\ mCall.aborted /\ mExt
  /\ mCall.pc = "raised" => (mFirstErr.set /\ mCall.err = mFirstErr.e)
  /\ mFirstErr.set =>
       \E k \in DOMAIN mWorker :
         mWorker[k].pc = "threw" /\ mFirstErr.e = fnError(mWorker[k].idx)

\* C3 witness: the call has rejected with the first error while another
\* worker's fn call is still in flight.
C3_Witness ==
  /\ mCall.pc = "raised"
  /\ mCall.err = mFirstErr.e
  /\ InFlight >= 1

\* C3 (as claimed): once a worker has seen a non-cancellation error the call
\* rejects with exactly that error.
C3_Original ==
  (mFirstErr.set /\ mapSettled) =>
    (mCall.pc = "raised" /\ mCall.err = mFirstErr.e)

\* What C4 says of the results array at every moment: a set entry holds the
\* value of the call that completed at that index, an index never claimed is
\* unset.
C4_PartialResults ==
  \A i \in DOMAIN mResults :
    /\ mResults[i].set => (mResults[i].v = fn(mIn.items[i + 1], i)
                           /\ i \in Range(mOrder))
    /\ i >= mNext => ~mResults[i].set

\* What C4 says of a token that had fired when the call began: fn is never
\* invoked and every entry is unset.
C4_AlreadyAborted ==
  (mIn.signal = "aborted" /\ mCall.pc # "init" /\ Len(mIn.items) > 0) =>
    /\ mNext = 0
    /\ InFlight = 0
    /\ \A i \in DOMAIN mResults : ~mResults[i].set

\* The step in which the call settles after the external token fired and no
\* worker had seen a non-cancellation error.
C4_SettlesCancelled ==
  /\ mCall.pc \in {"init", "pending"}
  /\ mCall'.pc \in {"returned", "raised"}
  /\ mExt
  /\ ~mFirstErr.set

\* C4 (as amended): for a non-empty items list, if the external token fires
\* before any fn call has raised a non-cancellation error, the call never
\* raises and returns aborted = true, completed results at their indices and
\* unset entries for the items never started; with a token already fired at
\* the call, fn is never invoked and every entry is unset.
C4_CancelReported ==
  /\ [](C4_PartialResults /\ C4_AlreadyAborted)
  /\ [][(C4_SettlesCancelled /\ Len(mIn.items) > 0) =>
          (mCall'.pc = "returned" /\ mCall'.aborted)]_vars

\* C4 witness: cancelled in mid-run; the call returned aborted = true with
\* one result set, one item never started, and the error of an in-flight
\* call swallowed.
C4_Witness ==
  /\ mIn.signal = "live"
  /\ mCall.pc = "returned" /\ mCall.aborted
  /\ ~mFirstErr.set
  /\ \E i \in DOMAIN mResults : mResults[i].set
  /\ \E i \in DOMAIN mResults : i >= mNext /\ ~mResults[i].set
  /\ \E i \in DOMAIN mResults :
       /\ i < mNext
       /\ i \notin Range(mOrder)
       /\ \A k \in DOMAIN mWorker : mWorker[k].pc = "returned"

\* C4 (as claimed): for every items list, the empty one included, a call
\* that settles after the external token fired returns aborted = true.
C4_Original ==
  [][C4_SettlesCancelled => (mCall'.pc = "returned" /\ mCall'.aborted)]_vars

(***************************************************************************)
(* Claims about raceWithAbort (checked under SpecRace)                     *)
(***************************************************************************)

raceSettledCall == rCall.pc \in {"returned", "raised"}

\* The tasks whose run promise resolved with a value, in resolution order.
Successes == SelectSeq(rLog, LAMBDA e : e.ok)

\* C5: if at least one task returns a value, the call returns {winner, result}
\* with the id and the value of the first task whose run resolved
\* successfully; an earlier failure does not end the race and a later success
\* never replaces the recorded winner.
C5_FirstSuccessWins ==
  /\ Successes # <<>> =>
       /\ rWinnerResult.set
       /\ rWinnerResult.id = taskId(Successes[1].i)
       /\ rWinnerResult.result = taskResult(Successes[1].i)
  /\ (Successes # <<>> /\ raceSettledCall) =>
       /\ rCall.pc = "returned" /\ rCall.kind = "winner"
       /\ rCall.winner = taskId(Successes[1].i)
       /\ rCall.result = taskResult(Successes[1].i)

\* C5 witness: one task failed first, then two tasks succeeded, and the call
\* returned the first of the two.
C5_Witness ==
  /\ Len(rLog) = 3
  /\ ~rLog[1].ok /\ rLog[2].ok /\ rLog[3].ok
  /\ rCall.pc = "returned"
  /\ rCall.winner = taskId(rLog[2].i)

\* C6: when a task wins the combined token is fired in the same step, and the
\* call settles only after the run promise of every task has settled, so no
\* loser is still running when the race returns.
C6_LosersDrained ==
  /\ rWinnerFound => rInternal
  /\ raceSettledCall => \A i \in DOMAIN rTask : rTask[i] # "running"
  /\ (raceSettledCall /\ rCall.kind = "winner") =>
       \A i \in DOMAIN rTask : rTask[i] \in {"ok", "failed"}

\* C6 witness: the race returned its winner after a loser, cancelled by the
\* win, had rejected.
C6_Witness ==
  /\ rCall.pc = "returned" /\ rCall.kind = "winner"
  /\ Len(rLog) >= 2
  /\ rLog[1].ok /\ ~rLog[2].ok
  /\ rInternal

\* The step in which a race settles after parentCancel fired during it and no
\* task returned a value.
C7_SettlesCancelled ==
  /\ rCall.pc = "pending"
  /\ rCall'.pc \in {"returned", "raised"}
  /\ rExt
  /\ Successes = <<>>

\* C7: cancellation of a race never raises: with parentCancel already fired
\* the call returns {aborted: true} without starting a task, and when
\* parentCancel fires during the race and no task returns a value it returns
\* {aborted: true}.
C7_CancelNeverRaises ==
  /\ []((rIn.parent = "aborted" /\ rIn.n > 0 /\ rCall.pc # "init") =>
          /\ rCall.pc = "returned" /\ rCall.kind = "aborted"
          /\ \A i \in DOMAIN rTask : rTask[i] = "idle")
  /\ [][C7_SettlesCancelled =>
          (rCall'.pc = "returned" /\ rCall'.kind = "aborted")]_vars

\* C8: if every task raises and the race was not cancelled, the call raises
\* one aggregate error that includes each task's id with that task's error.
C8_AggregateError ==
  (rCall.pc = "raised" /\ rIn.n > 0 /\ ~rExt) =>
    rCall.err.failures = { <<taskId(i), taskError(i)>> : i \in 1..rIn.n }

(***************************************************************************)
(* Claims about runAgentWithRetry (checked under SpecRetry)                *)
(***************************************************************************)

\* An attempt after which the claim says no further attempt is made.
C9_Stops(result) ==
  \/ result.exitCode = 0
  \/ result.error = S_Empty
  \/ ~shouldRetry(result.error, tIn)

\* k: the index of the first such attempt among those made (0: none yet).
C9_FirstStop ==
  IF \E j \in DOMAIN tResults : C9_Stops(tResults[j])
  THEN CHOOSE j \in DOMAIN tResults :
         /\ C9_Stops(tResults[j])
         /\ \A i \in 1..(j - 1) : ~C9_Stops(tResults[i])
  ELSE 0

\* C9: with a retry config (maxAttempts >= 1) runOnce is invoked exactly
\* min(k, maxAttempts) times, k the first attempt that succeeded or whose
\* error is not retryable: never more than maxAttempts times, never after a
\* success, exactly once when the first error matches a skipOn pattern.
C9_AttemptCount ==
  tIn.present =>
    /\ tCalls <= tIn.maxAttempts
    /\ C9_FirstStop # 0 => tCalls = C9_FirstStop
    /\ tCall.pc = "returned" =>
         /\ tCalls = Len(tResults)
         /\ tCalls = IF C9_FirstStop = 0 THEN tIn.maxAttempts
                     ELSE Min(C9_FirstStop, tIn.maxAttempts)
    /\ tCall.pc # "returned" => C9_FirstStop = 0
    /\ ( /\ tResults # <<>>
         /\ tResults[1].exitCode # 0
         /\ tResults[1].error # S_Empty
         /\ \E i \in DOMAIN tIn.skipOn.pats :
              matches(tResults[1].error, tIn.skipOn.pats[i]) )
       => tCalls = 1

\* C9 witness: under a config with skipOn patterns, two retryable failures,
\* then a success at the third of three allowed attempts; nothing more was
\* invoked.
C9_Witness ==
  /\ tIn.present /\ tIn.maxAttempts = 3
  /\ tIn.skipOn.present /\ Len(tIn.skipOn.pats) > 0
  /\ tCall.pc = "returned"
  /\ tCalls = 3
  /\ Len(tResults) = 3
  /\ tResults[1].exitCode = 1 /\ tResults[2].exitCode = 1
  /\ tResults[3].exitCode = 0

\* C10: the value returned is always the unmodified result of the last
\* runOnce invocation made, never an earlier one nor a synthesized one.
C10_ReturnsLastResult ==
  tCall.pc = "returned" =>
    /\ tResults # <<>>
    /\ tCall.r = tResults[Len(tResults)]
    /\ tCall.r.call = tCalls

\* C10 witness: attempts exhausted on retryable failures with different
\* errors; the last one is what was returned.
C10_Witness ==
  /\ tIn.present /\ tIn.maxAttempts = 2
  /\ tCall.pc = "returned"
  /\ Len(tResults) = 2
  /\ tResults[1].error # tResults[2].error
  /\ tResults[2].exitCode = 1 /\ tResults[2].error # S_Empty
  /\ shouldRetry(tResults[2].error, tIn)
  /\ tCall.r = tResults[2]

(***************************************************************************)
(* Claims about shouldRetry (checked under SpecPolicy)                     *)
(***************************************************************************)

\* pattern is a case-insensitive substring of error: at some offset every
\* character of pattern equals the character of error up to letter case.
C11_CiSubstring(pattern, error) ==
  \E k \in 0..(Len(error) - Len(pattern)) :
    \A i \in 1..Len(pattern) : lowerChar(error[k + i]) = lowerChar(pattern[i])

C11_SomeMatch(list, error) ==
  list.present /\ \E i \in DOMAIN list.pats : C11_CiSubstring(list.pats[i], error)

\* C11: shouldRetry(error, config) is false when the config is absent; false
\* when some skipOn pattern is a case-insensitive substring of error,
\* whatever retryOn holds; otherwise true when retryOn is absent or empty;
\* otherwise true exactly when some retryOn pattern is a case-insensitive
\* substring of error.
C11_ShouldRetry ==
  sRet.set =>
    sRet.v = (IF ~sIn.retry.present THEN FALSE
              ELSE IF C11_SomeMatch(sIn.retry.skipOn, sIn.error) THEN FALSE
              ELSE IF ~sIn.retry.retryOn.present \/ sIn.retry.retryOn.pats = <<>>
                   THEN TRUE
              ELSE C11_SomeMatch(sIn.retry.retryOn, sIn.error))

\* C11 witness: the error matches a skipOn pattern and a retryOn pattern,
\* both in another letter case, and shouldRetry returned false.
C11_Witness ==
  /\ sRet.set /\ ~sRet.v
  /\ sIn.error = S_FatalNet
  /\ sIn.retry.present
  /\ sIn.retry.skipOn = Pats(<<P_oom, P_FATAL>>)
  /\ sIn.retry.retryOn = Pats(<<P_oom, P_NET>>)

(***************************************************************************)
(* Claims about runAgentOnce (checked under SpecExec)                      *)
(***************************************************************************)

execSettled == xCall.pc \in {"returned", "raised"}

\* C12: runAgent never raises; a failure to create or write the prompt file
\* and a failure to spawn the child are returned as a result with
\* exitCode 1 and a non-empty error.
C12_NeverRaises ==
  /\ xCall.pc # "raised"
  /\ (xCall.pc = "returned" /\ xIn.spawn = "enoent" /\ ~xCall.r.aborted) =>
       (xCall.r.exitCode = 1 /\ xCall.r.error # S_Empty)

\* C13: when runAgent has returned or raised, no temp directory or prompt
\* file that the call created is left on disk.
C13_TempFilesRemoved ==
  execSettled => xFs = {}

\* C14: the result has aborted = true, and the final progress status is
\* aborted, exactly when the composite cancel token had fired during the
\* run, whichever of its sources fired.
C14_AbortedIffCancelled ==
  xCall.pc = "returned" =>
    /\ xCall.r.aborted = xCall.r.cancelled
    /\ (xCall.r.status = "aborted") = xCall.r.cancelled

\* C15: a result that is not aborted has a non-empty error exactly when its
\* exitCode is not 0; a child that exits 0 after an assistant message_end
\* with stopReason error and an errorMessage gives exitCode 1, that message
\* as error and the final progress status failed.
C15_ErrorIffNonZero ==
  (xCall.pc = "returned" /\ ~xCall.r.aborted) =>
    /\ (xCall.r.error # S_Empty) = (xCall.r.exitCode # 0)
    /\ (xExit.code = 0 /\ xEnv.apiError # S_Empty) =>
         /\ xCall.r.exitCode = 1
         /\ xCall.r.error = xEnv.apiError
         /\ xCall.r.status = "failed"
    /\ (xExit.code = 0 /\ xEnv.apiError = S_Empty) =>
         (xCall.r.exitCode = 0 /\ xCall.r.status = "completed")

\* C15 witness: the child reported an API error, exited with code 0, and the
\* run returned exitCode 1 with that message and status failed.
C15_Witness ==
  /\ xCall.pc = "returned"
  /\ ~xCall.r.aborted
  /\ xProc.state = "closed" /\ xProc.sent = {}
  /\ xExit.code = 0
  /\ xCall.r.exitCode = 1
  /\ xCall.r.error = S_ApiError
  /\ xCall.r.status = "failed"

\* The step in which the duration timer fires while the child of an attempt
\* in progress is running.
C16_TimerFiresOnRunningChild ==
  /\ xTimer.duration = "armed"
  /\ xTimer'.duration = "fired"
  /\ xProc.state = "running"
  /\ xCall.pc = "awaiting"

\* C16: with maxDurationMs present, whatever enforceLimits is, the duration
\* timer is pending while the attempt runs; when it fires on a running child
\* the child has been sent a termination signal and the exit promise is
\* resolved with a non-zero code, so the attempt can return at once, and it
\* returns a non-zero exitCode.
C16_DurationCancels ==
  /\ []((truthy(xIn.maxDurationMs) /\ xCall.pc = "awaiting") =>
          xTimer.duration \in {"armed", "fired"})
  /\ []((xCall.pc = "awaiting" /\ xExit.set) => ENABLED ExecReturn)
  /\ []((xCall.pc = "returned" /\ xExit.code # 0) => xCall.r.exitCode # 0)
  /\ [][C16_TimerFiresOnRunningChild =>
          /\ "SIGTERM" \in xProc'.sent
          /\ xExit'.set /\ xExit'.code # 0]_vars

\* C16 witness: enforceLimits is false, no caller token fired, the duration
\* timer fired, and the run returned a non-zero exitCode while the child,
\* which was sent SIGTERM, has not yet ended.
C16_Witness ==
  /\ xIn.enforceLimits = "false"
  /\ xSig.duration /\ ~xSig.caller
  /\ xCall.pc = "returned"
  /\ xCall.r.exitCode # 0
  /\ xProc.state = "running"
  /\ "SIGTERM" \in xProc.sent

\* C17: with enforceLimits true and maxConcurrentToolCalls = m > 0, whenever
\* more than m tool executions are open the tracker's signal has fired and
\* the run is cancelled.
C17_ToolCallLimit ==
  (/\ xIn.enforceLimits = "true"
   /\ truthy(xIn.maxConcurrentToolCalls)
   /\ xEnv.open > xIn.maxConcurrentToolCalls.v) =>
    (xSig.tracker /\ combinedAborted(xIn, xSig))

\* C18: with enforceLimits true and maxMemoryMB set, the memory poller is
\* sampling for as long as the child runs, and once the heap is over the
\* limit at a sample the run is cancelled.
C18_MemoryPoller ==
  /\ (/\ xIn.enforceLimits = "true"
      /\ truthy(xIn.maxMemoryMB)
      /\ xCall.pc = "awaiting"
      /\ xProc.state = "running") => xTimer.memory = "armed"
  /\ xSig.memory => combinedAborted(xIn, xSig)

\* C19: when the composite token has fired while the child runs, whichever
\* source fired, the child has been sent SIGTERM and a 5 s timer is pending
\* or has elapsed; once it has elapsed a child that is still running has
\* been sent SIGKILL.
C19_TermThenKill ==
  /\ (combinedAborted(xIn, xSig) /\ xProc.state = "running") =>
       ("SIGTERM" \in xProc.sent /\ xTimer.kill # "off")
  /\ (xTimer.kill = "elapsed" /\ xProc.state = "running") =>
       "SIGKILL" \in xProc.sent

(***************************************************************************)
(* Claims about executeDag (checked under SpecDag)                         *)
(***************************************************************************)

\* Node k goes to running in this step.
C20_Starts(k) == dStatus[k] # "running" /\ dStatus'[k] = "running"

\* C20: at the moment a node goes to running every id in its depends has
\* status completed (not failed, not skipped), and so no node that is or was
\* running has a dependency that is not completed.
C20_StartsAfterDepends ==
  /\ [](\A k \in DOMAIN dStatus :
          dStatus[k] \in {"running", "completed", "failed"} =>
            \A d \in dIn.depends[k] : dStatus[d] = "completed")
  /\ [][\A k \in DOMAIN dStatus :
          C20_Starts(k) => \A d \in dIn.depends[k] : dStatus'[d] = "completed"]_vars

\* C20 witness: node 3 depends on nodes 1 and 2 and runs, under a budget of
\* 1, after both have completed.
C20_Witness ==
  /\ dIn.n = 3
  /\ dIn.depends[3] = {1, 2}
  /\ dIn.maxConcurrency = 1
  /\ dStatus = <<"completed", "completed", "running">>

\* The nodes that node k depends on, directly or transitively.
RECURSIVE C21_Ancestors(_)
C21_Ancestors(k) ==
  dIn.depends[k] \cup UNION { C21_Ancestors(d) : d \in dIn.depends[k] }

C21_BrokenAncestor(k) ==
  \E a \in C21_Ancestors(k) : dStatus[a] \in {"failed", "skipped"}

\* The step in which running node k fails.
C21_Fails(k) == dStatus[k] = "running" /\ dStatus'[k] = "failed"

\* C21: when a node fails, every node that depends on it directly or
\* transitively is skipped and never runs; the call is not aborted by the
\* failure and the other running nodes keep running; the loop always has a
\* running node until it returns, and it returns with every node that has no
\* failed or skipped ancestor completed or failed.
C21_FailureSkipsDependents ==
  /\ [](\A k \in DOMAIN dStatus :
          (dCall.pc # "init" /\ C21_BrokenAncestor(k)) => dStatus[k] = "skipped")
  /\ [](dCall.pc = "running" => nodesIn(dStatus, {"running"}) # {})
  /\ []((dCall.pc = "returned" /\ ~dCall.aborted) =>
          \A k \in DOMAIN dStatus :
            IF C21_BrokenAncestor(k) THEN dStatus[k] = "skipped"
            ELSE dStatus[k] \in {"completed", "failed"})
  /\ [][\A k \in DOMAIN dStatus :
          C21_Fails(k) =>
            /\ dCall'.pc \in {"running", "returned"}
            /\ ~dCall'.aborted
            /\ \A j \in DOMAIN dStatus :
                 (j # k /\ dStatus[j] = "running") => dStatus'[j] = "running"]_vars

\* C21 witness: 1 -> 2 -> 3 and 1 -> 4 with node 2 failed: node 1 completed,
\* node 3 skipped, node 4 completed, and the call returned, not aborted.
C21_Witness ==
  /\ dIn.n = 4
  /\ dIn.depends = <<{}, {1}, {2}, {1}>>
  /\ dStatus = <<"completed", "failed", "skipped", "completed">>
  /\ dCall = [pc |-> "returned", aborted |-> FALSE]

(***************************************************************************)
(* Claims about the review loop of executeDag (checked under SpecDagReview)*)
(***************************************************************************)

C22_Reviewed(k) == dIn.review[k] > 0

\* Node k starts a further iteration in this step.
C22_ReRuns(k) == dRun'[k].iteration > dRun[k].iteration /\ dRun[k].iteration >= 1

\* C22: a node with a review block never runs more than review.maxIterations
\* iterations; it re-runs only in the step in which its reviewer returned
\* feedback; it fails only when one of its runs fails, never by exhaustion;
\* once the reviewer approves, or returns feedback at iteration
\* maxIterations, the node is completed; while it is under review or
\* re-running the number of iterations left strictly bounds the loop.
C22_ReviewLoopBounded ==
  /\ [](\A k \in DOMAIN dStatus : C22_Reviewed(k) =>
          /\ dRun[k].iteration <= dIn.review[k]
          /\ dRun[k].iteration <= dRun[k].feedbacks + 1
          /\ dRun[k].approved => dStatus[k] = "completed"
          /\ dStatus[k] = "completed" =>
               (dRun[k].approved \/ dRun[k].iteration = dIn.review[k])
          /\ dRun[k].phase = "review" => dStatus[k] = "running")
  /\ [][\A k \in DOMAIN dStatus : C22_Reviewed(k) =>
          /\ C22_ReRuns(k) =>
               /\ dRun[k].phase = "review"
               /\ dRun'[k].feedbacks = dRun[k].feedbacks + 1
               /\ dRun'[k].iteration = dRun[k].iteration + 1
               /\ ~dRun[k].approved
          /\ (dStatus[k] = "running" /\ dStatus'[k] = "failed") =>
               dRun[k].phase = "primary"
          /\ (dRun[k].phase = "review" /\ dRun'[k].phase # "review"
                /\ dRun'[k].feedbacks = dRun[k].feedbacks + 1
                /\ dRun[k].iteration = dIn.review[k]) =>
               dStatus'[k] = "completed"]_vars

\* C22 witness: a node with maxIterations 2 received feedback twice, ran two
\* iterations and is completed without approval.
C22_Witness ==
  \E k \in DOMAIN dStatus :
    /\ dIn.review[k] = 2
    /\ dRun[k].iteration = 2
    /\ dRun[k].feedbacks = 2
    /\ ~dRun[k].approved
    /\ dStatus[k] = "completed"

(***************************************************************************)
(* Claims about the progress snapshots (checked under SpecProg)            *)
(***************************************************************************)

\* The last `cap` of the entries 1 .. count, oldest first.
C23_MostRecent(count, cap) ==
  [i \in 1..Min(count, cap) |-> Max(0, count - cap) + i]

\* C23: every value passed to onProgress holds at most 10 recentTools and at
\* most 5 recentOutput entries, and they are the most recent entries in
\* arrival order (on overflow the oldest was dropped); the same holds of the
\* arrays of the progress record after every event.
C23_FifoCaps ==
  /\ pKept.set =>
       /\ Len(pKept.seen.recentTools) <= 10
       /\ Len(pKept.seen.recentOutput) <= 5
       /\ pKept.seen.recentTools = C23_MostRecent(pKept.seen.toolCount, 10)
       /\ \E n \in 0..pOutputs :
            pKept.seen.recentOutput = C23_MostRecent(n, 5)
  /\ pProgress.recentTools = C23_MostRecent(pProgress.toolCount, 10)
  /\ pProgress.recentOutput = C23_MostRecent(pOutputs, 5)

\* C23 witness: a retained snapshot taken after 11 tool executions and 6
\* previews holds tools 2..11 and previews 2..6.
C23_Witness ==
  /\ pKept.set
  /\ pKept.seen.toolCount = 11
  /\ pKept.seen.recentTools = <<2, 3, 4, 5, 6, 7, 8, 9, 10, 11>>
  /\ pKept.seen.recentOutput = <<2, 3, 4, 5, 6>>

\* C24: the status and the counters of a value passed to onProgress that the
\* caller retained never change afterwards, the final value included.
C24_SnapshotsAreCopies ==
  pKept.set =>
    /\ snapshotValue(pKept, pProgress).status = pKept.seen.status
    /\ snapshotValue(pKept, pProgress).toolCount = pKept.seen.toolCount

(***************************************************************************)
(* Claims about truncateOutput (checked under SpecTrunc)                   *)
(***************************************************************************)

\* C25: applying truncateOutput to the output of truncateOutput, with the
\* same maxBytes and maxLines, returns that string unchanged.
C25_Idempotent ==
  Len(uOut) = 2 => uOut[2].output = uOut[1].output

\* C25 witness: an output with too many lines and too many bytes, cut on
\* both counts in the middle of a surrogate pair, and applied twice.
C25_Witness ==
  /\ Len(uOut) = 2
  /\ uOut[1].truncated
  /\ Len(split(uIn.output)) > uIn.maxLines
  /\ byteLength(join(lastLines(split(uIn.output), uIn.maxLines))) > uIn.maxBytes
  /\ uOut[1].output = <<"L">>
  /\ uOut[2].output = <<"L">>

C36_IsSuffix(result, output) ==
  /\ Len(result) <= Len(output)
  /\ result = SubSeq(output, Len(output) - Len(result) + 1, Len(output))

\* C36: truncateOutput returns a suffix of its input with at most maxLines
\* lines and at most maxBytes UTF-8 bytes, and truncated tells exactly
\* whether the returned string differs from the input.
C36_TailWithinLimits ==
  Len(uOut) >= 1 =>
    /\ C36_IsSuffix(uOut[1].output, uIn.output)
    /\ Len(split(uOut[1].output)) <= uIn.maxLines
    /\ byteLength(uOut[1].output) <= uIn.maxBytes
    /\ uOut[1].truncated <=> (uOut[1].output # uIn.output)

\* C36 witness: two lines and a limit of one line and three bytes; the last
\* line, four bytes long, is cut to its last character.
C36_Witness ==
  /\ Len(uOut) = 1
  /\ uIn = [output |-> <<"a", "\n", "E3", "a">>, maxBytes |-> 3, maxLines |-> 1]
  /\ uOut[1] = [output |-> <<"a">>, truncated |-> TRUE]

(***************************************************************************)
(* Claims about resolveAgentInheritance (checked under SpecAgents)         *)
(***************************************************************************)

C26_NoDuplicates(list) ==
  \A i, j \in DOMAIN list : list[i] = list[j] => i = j

\* The tools of the extends chain of agent i, the base's first, each tool at
\* its first occurrence.
RECURSIVE C26_ChainTools(_, _, _)
C26_ChainTools(agents, i, fuel) ==
  IF agents[i].extends = Undefined \/ fuel = 0
  THEN uniqueInOrder(agents[i].tools)
  ELSE uniqueInOrder(
         C26_ChainTools(agents, agentMap(agents, agents[i].extends), fuel - 1)
           \o agents[i].tools)

\* C26: after resolveAgentInheritance returns, the resolvedTools of every
\* agent, root or derived, has no duplicate tool and lists the tools of the
\* base chain first, then the agent's own tools not already present.
C26_ResolvedToolsUnique ==
  aCall.pc = "returned" =>
    \A i \in DOMAIN aAgents :
      /\ C26_NoDuplicates(aAgents[i].resolvedTools)
      /\ aAgents[i].resolvedTools = C26_ChainTools(aIn, i, Len(aIn))

\* The part of C26 the code keeps: the same for every agent that extends a base.
C26_DerivedToolsUnique ==
  aCall.pc = "returned" =>
    \A i \in DOMAIN aAgents :
      aIn[i].extends # Undefined =>
        /\ C26_NoDuplicates(aAgents[i].resolvedTools)
        /\ aAgents[i].resolvedTools = C26_ChainTools(aIn, i, Len(aIn))

\* Agent i reaches itself by following extends.
RECURSIVE C27_Reaches(_, _, _, _)
C27_Reaches(agents, from, target, fuel) ==
  LET b == agentMap(agents, agents[from].extends)
  IN  /\ fuel > 0
      /\ agents[from].extends # Undefined
      /\ b # 0
      /\ (b = target \/ C27_Reaches(agents, b, target, fuel - 1))

C27_HasCycle(agents) ==
  \E i \in DOMAIN agents : C27_Reaches(agents, i, i, Len(agents))

C27_Untouched(agent) ==
  /\ agent.resolvedTools = <<>>
  /\ agent.resolvedModel = Undefined
  /\ agent.resolvedThinking = Undefined

\* C27: when the extends relation of the agents has a cycle, the call
\* raises the circular-inheritance error and leaves no agent of the list
\* with resolvedTools, resolvedModel or resolvedThinking set.
C27_CycleLeavesNothingResolved ==
  (aCall.pc # "idle" /\ C27_HasCycle(aIn)) =>
    /\ aCall.pc = "threw"
    /\ aCall.error = CircularError
    /\ \A i \in DOMAIN aAgents : C27_Untouched(aAgents[i])

\* The parts of C27 taken apart: a cycle always makes the call throw; the
\* error is the circular one unless a missing base was met first.
C27_CycleThrows ==
  (aCall.pc # "idle" /\ C27_HasCycle(aIn)) => aCall.pc = "threw"

C27_CircularLeavesNothingResolved ==
  (aCall.pc = "threw" /\ aCall.error = CircularError) =>
    \A i \in DOMAIN aAgents : C27_Untouched(aAgents[i])

\* The first of the three values that is present.
C37_FirstPresent(own, baseResolved, baseOwn) ==
  IF own # Undefined THEN own
  ELSE IF baseResolved # Undefined THEN baseResolved
  ELSE baseOwn

C37_ModelInherited(i) ==
  LET base == aAgents[agentMap(aAgents, aAgents[i].extends)]
  IN  aAgents[i].resolvedModel =
        C37_FirstPresent(aAgents[i].model, base.resolvedModel, base.model)

C37_ThinkingInherited(i) ==
  LET base == aAgents[agentMap(aAgents, aAgents[i].extends)]
  IN  aAgents[i].resolvedThinking =
        C37_FirstPresent(aAgents[i].thinking, base.resolvedThinking, base.thinking)

\* C37: after resolveAgentInheritance returns, every agent that extends a
\* base has as resolvedThinking its own thinking, else the base's
\* resolvedThinking, else the base's thinking, and as resolvedModel its own
\* model, else the base's resolvedModel, else the base's model.
C37_SettingsInherited ==
  aCall.pc = "returned" =>
    \A i \in DOMAIN aAgents :
      aAgents[i].extends # Undefined =>
        C37_ModelInherited(i) /\ C37_ThinkingInherited(i)

\* The part of C37 the code keeps: the model always, the thinking for the
\* agents that have none of their own.
C37_SettingsInheritedUnlessOwnThinking ==
  aCall.pc = "returned" =>
    \A i \in DOMAIN aAgents :
      aAgents[i].extends # Undefined =>
        /\ C37_ModelInherited(i)
        /\ aAgents[i].thinking = Undefined => C37_ThinkingInherited(i)

(***************************************************************************)
(* Further claims about mapWithConcurrencyLimit (checked under SpecMap)    *)
(***************************************************************************)

\* The k of the claim: n for a non-finite or non-positive concurrency, its
\* floor otherwise.
C28_K(c, n) ==
  IF c.kind # "num" \/ c.tenths <= 0 THEN n ELSE c.tenths \div 10

\* C28: for non-empty items of length n the call spawns max(1, min(k, n))
\* workers, k being n for a non-finite or non-positive concurrency and the
\* floor of the concurrency otherwise (1 worker for a value between 0 and 1).
C28_WorkersSpawned ==
  (mCall.pc # "init" /\ Len(mIn.items) > 0) =>
    Len(mWorker) = Max(1, Min(C28_K(mIn.conc, Len(mIn.items)), Len(mIn.items)))

\* The part of C28 the code keeps: the same for every concurrency that is
\* not strictly between 0 and 1.
C28_WorkersSpawnedUnlessFraction ==
  (mCall.pc # "init" /\ Len(mIn.items) > 0
     /\ ~(mIn.conc.kind = "num" /\ mIn.conc.tenths \in 1..9)) =>
    Len(mWorker) = Max(1, Min(C28_K(mIn.conc, Len(mIn.items)), Len(mIn.items)))

(***************************************************************************)
(* Claims about calculateBackoff (checked under SpecBackoff)               *)
(***************************************************************************)

RECURSIVE C29_Doubled(_, _)
C29_Doubled(baseMs, times) ==
  IF times = 0 THEN baseMs ELSE 2 * C29_Doubled(baseMs, times - 1)

\* C29: the delay of attempt k is min(baseMs * 2^(k-1), 60000): attempt 1
\* yields baseMs (capped), no delay exceeds 60000, delays never decrease
\* with the attempt, and each is the double of the previous one until the
\* cap is reached.
C29_BackoffDoublesToCap ==
  \A k \in DOMAIN bDelays :
    /\ bDelays[k] = Min(C29_Doubled(bIn, k - 1), 60000)
    /\ bDelays[k] <= 60000
    /\ k > 1 => /\ bDelays[k] >= bDelays[k - 1]
                /\ bDelays[k] = Min(2 * bDelays[k - 1], 60000)

\* C29 witness: baseMs 1000 doubles up to 32000 at attempt 6 and is capped
\* at 60000 from attempt 7 on.
C29_Witness ==
  /\ bIn = 1000
  /\ Len(bDelays) = 8
  /\ bDelays = <<1000, 2000, 4000, 8000, 16000, 32000, 60000, 60000>>

\* The workers that invoke fn in a step: those awaiting an fn call after the
\* step that they were not awaiting before it.
C30_Invoking ==
  { k \in DOMAIN mWorker' :
      /\ mWorker'[k].pc = "running"
      /\ \/ k \notin DOMAIN mWorker
         \/ mWorker[k].pc # "running"
         \/ mWorker[k].idx # mWorker'[k].idx }

\* Indices already handed to fn are below nextIndex, each with one worker at
\* most; no result exists at or above nextIndex.
C30_ClaimedBelowNext ==
  /\ \A k \in DOMAIN mWorker : mWorker[k].pc = "running" => mWorker[k].idx < mNext
  /\ \A k, h \in DOMAIN mWorker :
       (mWorker[k].pc = "running" /\ mWorker[h].pc = "running"
          /\ mWorker[k].idx = mWorker[h].idx) => k = h
  /\ \A i \in DOMAIN mResults : mResults[i].set => i < mNext

\* In every step the indices handed to fn are the next ones, nextIndex
\* onwards without a gap and one worker each, and none is handed out once
\* the external or the internal abort has fired.
C30_ClaimStep ==
  /\ mNext' >= mNext
  /\ \A k, h \in C30_Invoking : mWorker'[k].idx = mWorker'[h].idx => k = h
  /\ { mWorker'[k].idx : k \in C30_Invoking } =
       mNext..(mNext + Cardinality(C30_Invoking) - 1)
  /\ mNext' >= mNext + Cardinality(C30_Invoking)
  /\ C30_Invoking # {} => ~(mExt \/ mInternal)

\* C30: across all workers and interleavings fn is invoked at most once per
\* index, indices are claimed in increasing order with none skipped, and
\* after the combined abort has fired fn is invoked on no further index.
C30_ClaimsOnceInOrder == []C30_ClaimedBelowNext /\ [][C30_ClaimStep]_vars

\* C30 witness: three items, one worker; the caller's token fired while
\* item 0 was in flight, so the worker returned without claiming 1 and 2.
C30_Witness ==
  /\ Len(mIn.items) = 3
  /\ Len(mWorker) = 1
  /\ mExt
  /\ mWorker[1].pc = "returned"
  /\ mNext = 1
  /\ mResults[0].set /\ ~mResults[1].set /\ ~mResults[2].set
  /\ mCall.pc = "returned" /\ mCall.aborted

(***************************************************************************)
(* Further claims about runAgentOnce (checked under SpecExec)              *)
(***************************************************************************)

\* C31: when the call has returned or raised, no duration timer it armed is
\* still pending and no memory-poller interval is still active.
C31_GuardsTornDown ==
  xCall.pc \in {"returned", "raised"} =>
    /\ xTimer.duration # "armed"
    /\ xTimer.memory = "off"

\* The part of C31 about the memory poller alone: it is never started, so
\* none is ever active.
C31_NoMemoryPoller == xTimer.memory = "off"

(***************************************************************************)
(* Claims about processLine and getFinalOutput (checked under SpecEvents)  *)
(***************************************************************************)

C32_Ends ==
  Cardinality({ i \in DOMAIN eSeen : eSeen[i].type = "tool_execution_end" })

C32_UsageSum == eState.toolUsage["read"] + eState.toolUsage["bash"]

\* C32: at every point toolCount equals the sum of the toolUsage counts and
\* the number of tool_execution_end events received so far.
C32_ToolCountMatchesEnds ==
  /\ eState.toolCount = C32_UsageSum
  /\ eState.toolCount = C32_Ends

\* The part of C32 the code keeps: toolCount and the toolUsage counts move
\* together, and the current tool is clear after every end event.
C32_ToolCountMatchesUsage ==
  /\ eState.toolCount = C32_UsageSum
  /\ (Len(eSeen) > 0 /\ eSeen[Len(eSeen)].type = "tool_execution_end")
       => eState.currentTool = ""

\* The index of the most recent assistant message, 0 when there is none.
C33_LastAssistant(messages) ==
  IF \E i \in DOMAIN messages : messages[i].role = "assistant"
  THEN CHOOSE i \in DOMAIN messages :
         /\ messages[i].role = "assistant"
         /\ \A j \in DOMAIN messages : messages[j].role = "assistant" => j <= i
  ELSE 0

\* C33: the output is the text of the last text part of the most recent
\* assistant message, and empty when that message has no text part or when
\* there is no assistant message.
C33_OutputIsFinalText ==
  eCall.pc = "returned" =>
    LET i == C33_LastAssistant(eState.messages)
        texts == IF i = 0 THEN <<>> ELSE textsOf(eState.messages[i].content)
    IN  eCall.output = IF Len(texts) = 0 THEN "" ELSE texts[Len(texts)]

\* What the code returns: no assistant message with a text part gives the
\* empty output, and any output is the first text part of an assistant
\* message.
C33_OutputIsSomeFirstText ==
  eCall.pc = "returned" =>
    IF \A i \in DOMAIN eState.messages :
         eState.messages[i].role # "assistant"
           \/ Len(textsOf(eState.messages[i].content)) = 0
    THEN eCall.output = ""
    ELSE \E i \in DOMAIN eState.messages :
           /\ eState.messages[i].role = "assistant"
           /\ Len(textsOf(eState.messages[i].content)) > 0
           /\ eCall.output = textsOf(eState.messages[i].content)[1]

\* A line that is not a recognized event: not JSON, JSON that is not an
\* object, or an object of an unknown type.
C35_Unrecognized(line) ==
  \/ line.json \in {"invalid", "null", "number"}
  \/ line.json = "object" /\ line.type = "session"

C35_DiscardStep ==
  (Len(eSeen') = Len(eSeen) + 1 /\ C35_Unrecognized(eSeen'[Len(eSeen')])) =>
    /\ eState' = eState
    /\ eCall' = eCall

\* C35: a line that is not a recognized event raises no error, emits no
\* progress and leaves messages, usage, toolCount, toolUsage and the
\* progress record as they were.
C35_UnrecognizedDiscarded == [][C35_DiscardStep]_vars

C35_DiscardStepUnlessNull ==
  (Len(eSeen') = Len(eSeen) + 1 /\ C35_Unrecognized(eSeen'[Len(eSeen')])
     /\ eSeen'[Len(eSeen')].json # "null") =>
    /\ eState' = eState
    /\ eCall' = eCall

\* The part of C35 the code keeps: the same for every such line but null.
C35_UnrecognizedButNullDiscarded == [][C35_DiscardStepUnlessNull]_vars

(***************************************************************************)
(* Claims about the stdout handlers (checked under SpecStdout)             *)
(***************************************************************************)

\* C34: whatever the chunks, the lines that reach the parser are the
\* non-blank lines of the character stream, the last one included when it
\* has no trailing newline.
C34_LinesWhateverTheChunks ==
  oCall.pc = "closed" => oLines = parsedLines(split(oIn))

\* The part of C34 the code keeps: the same when no chunk ends inside the
\* bytes of a character.
C34_LinesForWholeCharChunks ==
  (oCall.pc = "closed" /\ ~oCall.splitChar) => oLines = parsedLines(split(oIn))

(***************************************************************************)
(* Claims about runAgent with retry and cancellation (under SpecRun)       *)
(***************************************************************************)

C38_NoSpawnOnceCancelled ==
  (gSig.caller \/ gSig.ended) => gSpawned' = gSpawned

\* C38: once the caller's token has fired or a duration timer has ended an
\* attempt, no further child process is started.
C38_NoAttemptAfterCancel == [][C38_NoSpawnOnceCancelled]_vars

\* What the code keeps: never more children than maxAttempts.
C38_AttemptsWithinMax == gSpawned <= gIn.retry.maxAttempts


(***************************************************************************)
(* Claims about the progress record after the return (checked under        *)
(* SpecProg)                                                               *)
(***************************************************************************)

C39_QuietStep ==
  pCall.pc = "returned" => (pProgress' = pProgress /\ pKept' = pKept)

\* C39: once the attempt has returned, the progress record keeps its final
\* status and no further value reaches onProgress, also when the caller's
\* token fires afterwards.
C39_QuietAfterReturn == [][C39_QuietStep]_vars

\* What the code keeps: after the return the status changes only through
\* killProc, which makes it "aborted"; the events of a child that is still
\* writing change the other fields.
C39_StatusAfterReturn ==
  [][pCall.pc = "returned" =>
       pProgress'.status \in {pProgress.status, "aborted"}]_vars


(***************************************************************************)
(* Further claims about mapWithConcurrencyLimit (checked under SpecMap)     *)
(***************************************************************************)

C40_HasUnsetEntry == \E i \in DOMAIN mResults : ~mResults[i].set

\* C40: whenever the call returns with aborted = false, every entry of
\* results is set; a returned results array has an unset entry only together
\* with aborted = true.
C40_UnsetOnlyWhenAborted ==
  (mCall.pc = "returned" /\ C40_HasUnsetEntry) => mCall.aborted

\* C40 witness: the call has returned aborted = true with a hole before a
\* set entry: item 1 was stored, item 0 never was.
C40_Witness ==
  /\ mCall.pc = "returned" /\ mCall.aborted
  /\ Len(mIn.items) >= 2
  /\ ~mResults[0].set
  /\ mResults[1].set

====
